---- MODULE Spec2Model ----
(***************************************************************************)
(* Verification model of effect-gql's execution engine: the persisted-     *)
(* query store and router, the request pipeline with its lifecycle hooks,  *)
(* and the subscription engines (graphql-ws connection handler, SSE        *)
(* subscription stream).                                                   *)
(*                                                                         *)
(* Each component has its own specification (SpecStore, SpecRouter,        *)
(* SpecPipeline, SpecSub); the variables of the components a specification *)
(* does not exercise stay at their initial values.                         *)
(***************************************************************************)
EXTENDS Integers, Sequences, FiniteSets, TLC

\* ---- persisted-queries/src/memory-store.ts ----
VARIABLES
  accessCounter,   \* module-level `let accessCounter = 0` (shared by every store)
  maxSize,         \* `config.maxSize ?? 1000` of the store under study
  cache,           \* `new Map<string, CacheEntry>()`, in insertion order
  ret,             \* what the last store call returned
  recency          \* history: the hashes accessed (set, or get that hit), oldest
                   \* effective access first, each hash once

  \* ---- persisted-queries/src/persisted-queries-router.ts ----
VARIABLES
  mode,               \* options.mode ?? "apq"
  validateHashOption, \* options.validateHash ?? true
  hashAlgorithm,      \* options.hashAlgorithm ?? "sha256"
  enableGet,          \* options.enableGet ?? true
  storeKind,          \* which store layer the router was given
  queries,            \* the record a safelist store was built from
  lastReq,            \* the request handled last
  lastResp,           \* the response it was given
  chain,              \* history: progress of the register-on-miss exchange
  registered          \* history: the hashes the router passed to store.set

  \* ---- core/src/builder/execute.ts, core/src/server/router.ts ----
VARIABLES
  handler,            \* which pipeline runs: graphqlHandler of the router, or execute
  source,             \* the query text of the request
  complexityOutcome,  \* what validateComplexity does for it ("none": not configured)
  complexityConfig,   \* resolvedConfig.complexity: << >>, or <<the limits>>
  extensions,         \* per registered extension, the set of hooks it defines
  pc,                 \* the step the pipeline is at
  cursor,             \* position of Effect.forEach in the filtered hook list
  trace,              \* history: the steps completed, in order
  ran,                \* history: the hooks invoked, in order
  bag,                \* the Ref of the ExtensionsService
  cleanBag,           \* history: the writes of the hooks that succeeded
  hookExit,           \* history: "ok", "failed" once the effect of a hook failed
                      \* or died, "threw" once a hook threw when it was called
  response,           \* the response, once produced
  cause               \* << >>, or <<the Cause handed to errorHandler>>

  \* ---- core/src/server/schema-builder-extensions.ts (subscriptions) ----
VARIABLES
  transport,          \* "ws": makeGraphQLWSHandler, "sse": makeSSESubscriptionStream
  connected,          \* the socket / the HTTP response stream is open
  acknowledged,       \* graphql-ws ctx.acknowledged
  clientSent,         \* history: number of messages the client has sent
  messageQueue,       \* Queue.unbounded<string>() filled by messageFiber
  processing,         \* the message whose callback processMessagesFiber awaits
  callback,           \* the pending callback of graphql-ws: its message, its wait
  subscriptions,      \* graphql-ws ctx.subscriptions: per id none / reserved / active
  iter,               \* per id, the async iterator of its latest operation
  wire,               \* history: what was sent to the client, in order
  options,            \* GraphQLWSOptions / GraphQLSSEOptions and what the request,
                      \* the hooks and subscribe() will do once they are reached
  closeCode,          \* the code of the first graphqlWsSocket.close, "none" before
  connectionInitReceived, \* graphql-ws ctx.connectionInitReceived
  closedDeferred,     \* "pending", or what completed or failed it
  resumed,            \* the main fiber is past Deferred.await(closedDeferred)
  completed,          \* the effect of the connection handler has completed
  steps,              \* history: what makeSSESubscriptionStream invoked, in order
  cancelled,          \* the client of the SSE response went away (cancel, disconnect)
  waitingAt           \* what the SSE setup effect waits for, "none" when it does not

  \* ---- core/src/builder/execute.ts (makeExtensionsService) ----
VARIABLES
  ref,                \* the Ref of one ExtensionsService
  call,               \* the call under study: set or merge, its key and value
  before              \* history: the contents of the Ref before each call made

  \* ---- core/src/builder/execute.ts (createAnalyzerExtension) ----
VARIABLES
  document,           \* args.document: the operation and the fragment definitions
  analyzerConfig,     \* the AnalyzerExtensionConfig the extension was created with
  analyzerOut         \* << >>, or what onExecuteStart did: the output it set, if any

  \* ---- the complexity gates of router.ts and schema-builder-extensions.ts ----
VARIABLES
  gateInput,          \* the site of the gate, the query, the limits, the analysis
  gateResult          \* << >>, or what the gate did

storeVars == <<accessCounter, maxSize, cache, ret, recency>>
routerVars == <<mode, validateHashOption, hashAlgorithm, enableGet, storeKind,
                queries, lastReq, lastResp, chain, registered>>

pipelineVars == <<handler, source, complexityOutcome, complexityConfig, extensions, pc, cursor,
                  trace, ran, bag, cleanBag, hookExit, response, cause>>

subVars == <<transport, connected, acknowledged, clientSent, messageQueue,
             processing, subscriptions, iter, wire, options, closeCode, steps,
             cancelled, connectionInitReceived, closedDeferred, completed,
             callback, resumed, waitingAt>>

serviceVars == <<ref, call, before>>

analyzerVars == <<document, analyzerConfig, analyzerOut>>

gateVars == <<gateInput, gateResult>>

otherVars == <<serviceVars, analyzerVars, gateVars>>

vars == <<storeVars, routerVars, pipelineVars, subVars, otherVars>>

\* ------------------------------------------------------------------ bounds

\* Largest explicitly configured capacity the model tries.
MaxCap == 2
\* Cap on the global access counter (it is unbounded in the program).
MaxAccess == 5
MaxRouterAccess == 2

\* ------------------------------------------------------------- JS helpers

Undefined == "<undefined>"
\* Option.none() / Option.some(v), void and boolean results
None == [tag |-> "None"]
Some(v) == [tag |-> "Some", value |-> v]
Void == [tag |-> "Void"]
Bool(b) == [tag |-> "Bool", flag |-> b]

\* JavaScript truthiness of a string-or-undefined value: `if (x)` / `!x`.
Truthy(x) == x # Undefined /\ x # ""

Min(S) == CHOOSE x \in S : \A y \in S : x <= y

SeqRemoveAt(s, i) ==
  [j \in 1..(Len(s) - 1) |-> IF j < i THEN s[j] ELSE s[j + 1]]

\* =====================================================================
\* Persisted-query memory store (makeMemoryStore)
\* =====================================================================

\* Hash strings callers may pass; the empty string is a string like any other.
StoreHashes == {"", "a1", "a2", "b1"}
\* Query texts callers may store.
StoreQueries == {"q1", "q2"}

DefaultMaxSize == 1000

\* MemoryStoreConfig: << >> when maxSize is left out, <<n>> when it is given.
\* `config.maxSize ?? 1000`
ResolveMaxSize(config) ==
  IF Len(config) = 0 THEN DefaultMaxSize ELSE config[1]

\* Map.prototype.has / index of a key in insertion order (0 when absent)
MapIndex(c, key) ==
  IF \E i \in 1..Len(c) : c[i].key = key
    THEN CHOOSE i \in 1..Len(c) : c[i].key = key
    ELSE 0

MapHas(c, key) == MapIndex(c, key) # 0

\* Map.prototype.set: an existing key keeps its position, a new key is appended.
MapSet(c, key, entry) ==
  LET i == MapIndex(c, key)
      e == [key |-> key, query |-> entry.query, accessOrder |-> entry.accessOrder]
  IN IF i = 0 THEN Append(c, e) ELSE [c EXCEPT ![i] = e]

\* Map.prototype.delete
MapDelete(c, key) ==
  LET i == MapIndex(c, key)
  IN IF i = 0 THEN c ELSE SeqRemoveAt(c, i)

\* The loop of evictLRU: the first entry, in insertion order, whose accessOrder
\* is strictly below every earlier one's (Undefined on an empty map).
OldestKey(c) ==
  IF Len(c) = 0 THEN Undefined
  ELSE LET lowest == Min({c[i].accessOrder : i \in 1..Len(c)})
           first == Min({i \in 1..Len(c) : c[i].accessOrder = lowest})
       IN c[first].key

\* evictLRU: `if (cache.size <= maxSize) return`, find the lowest accessOrder,
\* `if (oldestKey) cache.delete(oldestKey)`.
evictLRU(c, cap) ==
  IF Len(c) <= cap THEN c
  ELSE LET oldestKey == OldestKey(c)
       IN IF Truthy(oldestKey) THEN MapDelete(c, oldestKey) ELSE c

\* getNextAccessOrder: `++accessCounter`
getNextAccessOrder(counter) == counter + 1

\* History bookkeeping: `hash` becomes the most recently accessed one.
Touch(r, hash) ==
  Append(SelectSeq(r, LAMBDA k : k # hash), hash)

\* The body of get(hash) on the map c with the counter at n:
\* the new map, the new counter and the Option returned.
MemoryGet(c, n, hash) ==
  LET i == MapIndex(c, hash)
  IN IF i = 0
       THEN [cache |-> c, counter |-> n, ret |-> None]
       ELSE [cache |-> [c EXCEPT ![i].accessOrder = getNextAccessOrder(n)],
             counter |-> getNextAccessOrder(n),
             ret |-> Some(c[i].query)]

\* The body of set(hash, query): cache.set(...) with the next stamp, then evictLRU().
MemorySet(c, n, cap, hash, query) ==
  [cache |-> evictLRU(MapSet(c, hash, [query |-> query,
                                       accessOrder |-> getNextAccessOrder(n)]),
                      cap),
   counter |-> getNextAccessOrder(n),
   ret |-> Void]

\* store.get(hash)
StoreGet(hash) ==
  /\ LET r == MemoryGet(cache, accessCounter, hash)
     IN /\ r.counter <= MaxAccess
        /\ cache' = r.cache
        /\ accessCounter' = r.counter
        /\ ret' = r.ret
        /\ recency' = IF r.ret = None THEN recency ELSE Touch(recency, hash)
  /\ UNCHANGED <<maxSize, routerVars, pipelineVars, subVars, otherVars>>

\* store.set(hash, query)
StoreSet(hash, query) ==
  /\ LET r == MemorySet(cache, accessCounter, maxSize, hash, query)
     IN /\ r.counter <= MaxAccess
        /\ cache' = r.cache
        /\ accessCounter' = r.counter
        /\ ret' = r.ret
  /\ recency' = Touch(recency, hash)
  /\ UNCHANGED <<maxSize, routerVars, pipelineVars, subVars, otherVars>>

\* a has(hash) that counts as an access of the entry it finds
StoreHasTouching(hash) ==
  /\ LET r == MemoryGet(cache, accessCounter, hash)
     IN /\ r.counter <= MaxAccess
        /\ cache' = r.cache
        /\ accessCounter' = r.counter
  /\ ret' = Bool(MapHas(cache, hash))
  /\ UNCHANGED <<maxSize, recency, routerVars, pipelineVars, subVars, otherVars>>

\* store.has(hash)
StoreHas(hash) ==
  /\ ret' = Bool(MapHas(cache, hash))
  /\ UNCHANGED <<accessCounter, cache, maxSize, recency, routerVars, pipelineVars, subVars, otherVars>>

\* A get/set on another store of the same process: the counter is module-global.
OtherStoreAccess ==
  /\ accessCounter < MaxAccess
  /\ accessCounter' = getNextAccessOrder(accessCounter)
  /\ UNCHANGED <<cache, maxSize, ret, recency, routerVars, pipelineVars, subVars, otherVars>>

\* The router's variables while no router is under study.
\* No connection.
SubIdle ==
  /\ transport = "none"
  /\ connected = FALSE
  /\ acknowledged = FALSE
  /\ clientSent = 0
  /\ messageQueue = << >>
  /\ processing = << >>
  /\ subscriptions = << >>
  /\ iter = << >>
  /\ wire = << >>
  /\ options = << >>
  /\ closeCode = "none"
  /\ steps = << >>
  /\ cancelled = FALSE
  /\ connectionInitReceived = FALSE
  /\ closedDeferred = "pending"
  /\ completed = FALSE
  /\ callback = << >>
  /\ resumed = FALSE
  /\ waitingAt = "none"

\* No extensions service, no calculator under study.
OtherIdle ==
  /\ ref = << >>
  /\ call = << >>
  /\ before = << >>
  /\ document = << >>
  /\ analyzerConfig = << >>
  /\ analyzerOut = << >>
  /\ gateInput = << >>
  /\ gateResult = << >>

\* No pipeline running.
PipelineIdle ==
  /\ handler = "none"
  /\ source = Undefined
  /\ complexityOutcome = "none"
  /\ complexityConfig = << >>
  /\ extensions = << >>
  /\ pc = "idle"
  /\ cursor = 0
  /\ trace = << >>
  /\ ran = << >>
  /\ bag = << >>
  /\ cleanBag = << >>
  /\ hookExit = "ok"
  /\ response = << >>
  /\ cause = << >>

RouterIdle ==
  /\ mode = "apq"
  /\ validateHashOption = TRUE
  /\ hashAlgorithm = "sha256"
  /\ enableGet = TRUE
  /\ storeKind = "memory"
  /\ queries = << >>
  /\ lastReq = << >>
  /\ lastResp = << >>
  /\ chain = [step |-> 0]
  /\ registered = {}

InitStore ==
  /\ RouterIdle
  /\ PipelineIdle
  /\ SubIdle
  /\ OtherIdle
  /\ accessCounter = 0
  /\ \E config \in {<< >>} \cup {<<n>> : n \in 0..MaxCap} :
       maxSize = ResolveMaxSize(config)
  /\ cache = << >>
  /\ ret = Void
  /\ recency = << >>

NextStore ==
  \/ \E h \in StoreHashes : StoreGet(h)
  \/ \E h \in StoreHashes, q \in StoreQueries : StoreSet(h, q)
  \/ \E h \in StoreHashes : StoreHas(h)
  \/ OtherStoreAccess

SpecStore == InitStore /\ [][NextStore]_vars

\* ---------------------------------------------------------------- claims

\* C1: a store created with capacity N holds at most N entries after any
\* sequence of get, set and has calls, whatever the hash strings (the empty
\* string included).
C1_StoreWithinCapacity == Len(cache) <= maxSize

\* The map as it is inside set(hash, query), after cache.set and before evictLRU.
AfterInsert(hash, query) ==
  MapSet(cache, hash, [query |-> query, accessOrder |-> accessCounter + 1])

\* C2: when a set pushes the size above capacity, exactly one entry is removed
\* and it is the one whose most recent access (last set, or last get that hit)
\* is the oldest among the entries present.
C2_SetEvictsLeastRecent ==
  [][\A h \in StoreHashes, q \in StoreQueries :
       (StoreSet(h, q) /\ Len(AfterInsert(h, q)) > maxSize) =>
         \E i \in 1..Len(AfterInsert(h, q)) :
           /\ \A j \in 1..Len(AfterInsert(h, q)) :
                AfterInsert(h, q)[i].accessOrder <= AfterInsert(h, q)[j].accessOrder
           /\ cache' = SeqRemoveAt(AfterInsert(h, q), i)]_vars

\* The keys of the cache, least recently stamped first.
RECURSIVE KeysByStamp(_)
KeysByStamp(c) ==
  IF Len(c) = 0 THEN << >>
  ELSE LET i == CHOOSE k \in 1..Len(c) :
                  \A j \in 1..Len(c) : c[k].accessOrder <= c[j].accessOrder
       IN <<c[i].key>> \o KeysByStamp(SeqRemoveAt(c, i))

\* C3: under any interleaving of the calls of concurrent requests (each call is
\* one Effect.sync thunk, run to completion on the single JavaScript thread, so
\* an interleaving is a sequence of whole calls) the store is never above its
\* capacity, the access stamps are pairwise distinct, and their order is the
\* order in which the accesses took effect.
C3_ConcurrentAccessConsistent ==
  /\ Len(cache) <= maxSize
  /\ \A i, j \in 1..Len(cache) :
       i # j => cache[i].accessOrder # cache[j].accessOrder
  /\ \A i \in 1..Len(cache) : cache[i].accessOrder \in 1..accessCounter
  /\ KeysByStamp(cache) = SelectSeq(recency, LAMBDA k : MapHas(cache, k))

\* =====================================================================
\* The GraphQL engine (graphql-js: parse, validate, execute), as the
\* handlers see it: deterministic functions of the query text.
\* =====================================================================

\* "q1" and "q2" are valid operations with different results, "inv" parses
\* but fails validation, "bad" is a syntax error.
QueryTexts == {"q1", "q2", "inv", "bad"}

\* The texts clients of the persisted-queries router send.
RouterTexts == {"q1", "q2", "bad"}

\* parse(source) returns a document (TRUE) or throws (FALSE)
ParseOk(query) == query \in {"q1", "q2", "inv"}

\* validate(schema, document): the list of validation errors
ValidationErrors(query) == IF query = "inv" THEN <<"invalid">> ELSE << >>

\* graphqlExecute(...): the data of the result
ExecuteData(query) == IF query = "q1" THEN "data1" ELSE "data2"

\* =====================================================================
\* Persisted-queries router (makePersistedQueriesRouter)
\* =====================================================================

\* createHash(algorithm).update(query).digest("hex"): a different digest for
\* every (text, algorithm); never the empty string.
computeHash(query, algorithm) ==
  IF algorithm = "sha256"
    THEN CASE query = "q1" -> "a1" [] query = "q2" -> "a2"
           [] query = "inv" -> "a3" [] OTHER -> "a4"
    ELSE CASE query = "q1" -> "b1" [] query = "q2" -> "b2"
           [] query = "inv" -> "b3" [] OTHER -> "b4"

\* sha256Hash values clients send: digests of both algorithms and the empty string.
RouterHashes == {"", "a1", "a2", "b1"}

\* The `extensions` of a request body: absent, carrying a persistedQuery that
\* is not {version: number, sha256Hash: string}, or carrying a well-formed one.
ExtAbsent == [tag |-> "absent"]
ExtInvalid == [tag |-> "invalid"]
ExtPq(version, hash) == [tag |-> "pq", version |-> version, sha256Hash |-> hash]

Extensions ==
  {ExtAbsent, ExtInvalid, ExtPq(2, "a1")} \cup {ExtPq(1, h) : h \in RouterHashes}

\* What a client sends: a body that cannot be decoded, or {query?, extensions?}.
Malformed == [malformed |-> TRUE]
Body(query, ext) == [malformed |-> FALSE, query |-> query, ext |-> ext]

RawBodies ==
  {Malformed} \cup
  {Body(q, e) : q \in {Undefined, ""} \cup RouterTexts, e \in Extensions}

\* parsePersistedQueryExtension: the extension, or null (<< >>)
parsePersistedQueryExtension(ext) ==
  IF ext.tag = "pq" THEN <<ext>> ELSE << >>

\* parseGetRequestBody: `if (query) result.query = query`
parseGetRequestBody(raw) ==
  IF raw.malformed THEN raw
  ELSE Body(IF Truthy(raw.query) THEN raw.query ELSE Undefined, raw.ext)

\* makeSafelistStore: `queries[hash] !== undefined` on a plain object, which
\* also answers for the keys it inherits from Object.prototype.
ObjectPrototypeKeys == {"constructor"}
RecordGet(rec, hash) ==
  IF hash \in DOMAIN rec THEN rec[hash]
  ELSE IF hash \in ObjectPrototypeKeys THEN "[Function]"
  ELSE Undefined

SafelistGet(rec, hash) ==
  IF RecordGet(rec, hash) # Undefined THEN Some(RecordGet(rec, hash)) ELSE None

\* a store.get that never finds anything
RouterStoreGetMiss(kind, rec, c, n, hash) ==
  [cache |-> c, counter |-> n, ret |-> None]

\* store.get / store.set of the layer the router was given
RouterStoreGet(kind, rec, c, n, hash) ==
  IF kind = "memory" THEN MemoryGet(c, n, hash)
  ELSE [cache |-> c, counter |-> n, ret |-> SafelistGet(rec, hash)]

\* a store.set that stores nothing
RouterStoreSetDropped(kind, c, n, cap, hash, query) ==
  [cache |-> c, counter |-> n, ret |-> Void]

RouterStoreSet(kind, c, n, cap, hash, query) ==
  IF kind = "memory" THEN MemorySet(c, n, cap, hash, query)
  ELSE [cache |-> c, counter |-> n, ret |-> Void]

\* Responses
Response(status, kind, code, query, data) ==
  [status |-> status, kind |-> kind, code |-> code, query |-> query, data |-> data,
   version |-> << >>]

\* The APQ errors (Data.TaggedError classes) with what toGraphQLError() puts in
\* `extensions`: the code, and for the version error the offending version.
PersistedQueryNotFoundError(hash) ==
  [code |-> "PERSISTED_QUERY_NOT_FOUND", version |-> << >>]
\* a version error whose toGraphQLError() leaves the version out
PersistedQueryVersionErrorBare(version) ==
  [code |-> "PERSISTED_QUERY_VERSION_NOT_SUPPORTED", version |-> << >>]
PersistedQueryVersionError(version) ==
  [code |-> "PERSISTED_QUERY_VERSION_NOT_SUPPORTED", version |-> <<version>>]
PersistedQueryHashMismatchError(providedHash, computedHash) ==
  [code |-> "PERSISTED_QUERY_HASH_MISMATCH", version |-> << >>]
PersistedQueryNotAllowedError(hash) ==
  [code |-> "PERSISTED_QUERY_NOT_ALLOWED", version |-> << >>]

\* `HttpServerResponse.json({ errors: [error.toGraphQLError()] })`
ApqError(error) ==
  [Response(200, "apqError", error.code, Undefined, Undefined)
     EXCEPT !.version = error.version]

\* validation of the claimed hash with `if (computed !== hash)` left out
HashMismatchUnchecked(validate, query, algorithm, hash) == FALSE

\* validation of the claimed hash whatever validateHash is set to
HashMismatchAlways(validate, query, algorithm, hash) ==
  computeHash(query, algorithm) # hash

\* `if (validateHashOption) { computed = computeHash(body.query); if (computed !== hash) fail }`
HashMismatch(validate, query, algorithm, hash) ==
  validate /\ computeHash(query, algorithm) # hash

\* resolvePersistedQuery(body) against the store (c, n): Right(body) or
\* Left(error), the store afterwards, and the hash registered (if any).
resolvePersistedQuery(body, c, n) ==
  LET pq == parsePersistedQueryExtension(body.ext)
      same == [cache |-> c, counter |-> n]
  IN IF Len(pq) = 0
       THEN [tag |-> "Right", query |-> body.query, store |-> same, set |-> << >>]
     ELSE IF pq[1].version # 1
       THEN [tag |-> "Left", error |-> PersistedQueryVersionError(pq[1].version),
             store |-> same, set |-> << >>]
     ELSE
       LET hash == pq[1].sha256Hash
           got == RouterStoreGet(storeKind, queries, c, n, hash)
           after == [cache |-> got.cache, counter |-> got.counter]
       IN IF got.ret # None
            THEN [tag |-> "Right", query |-> got.ret.value, store |-> after,
                  set |-> << >>]
          ELSE IF ~Truthy(body.query)
            THEN [tag |-> "Left", error |-> PersistedQueryNotFoundError(hash),
                  store |-> after, set |-> << >>]
          ELSE IF mode = "safelist"
            THEN [tag |-> "Left", error |-> PersistedQueryNotAllowedError(hash),
                  store |-> after, set |-> << >>]
          ELSE IF HashMismatch(validateHashOption, body.query, hashAlgorithm, hash)
            THEN [tag |-> "Left",
                  error |-> PersistedQueryHashMismatchError(
                              hash, computeHash(body.query, hashAlgorithm)),
                  store |-> after, set |-> << >>]
          ELSE
            LET put == RouterStoreSet(storeKind, got.cache, got.counter, maxSize,
                                      hash, body.query)
            IN [tag |-> "Right", query |-> body.query,
                store |-> [cache |-> put.cache, counter |-> put.counter],
                set |-> <<hash>>]

\* The pipeline of createHandler on a resolved query text, for a router with
\* no extensions and no complexity limits: parse, validate, execute.
RouterPipeline(query) ==
  IF ~ParseOk(query)
    THEN Response(200, "parseError", Undefined, query, Undefined)
  ELSE IF Len(ValidationErrors(query)) > 0
    THEN Response(400, "validationError", Undefined, query, Undefined)
  ELSE Response(200, "result", Undefined, query, ExecuteData(query))

\* a handler that runs the pipeline on the query text of the body even when
\* resolvePersistedQuery failed
createHandlerIgnoringLeft(body, c, n) ==
  IF body.malformed
    THEN [resp |-> Response(400, "bodyParseError", Undefined, Undefined, Undefined),
          store |-> [cache |-> c, counter |-> n], set |-> << >>]
  ELSE LET r == resolvePersistedQuery(body, c, n)
           text == IF r.tag = "Left" THEN body.query ELSE r.query
       IN [resp |-> IF ~Truthy(text)
                      THEN IF r.tag = "Left" THEN ApqError(r.error)
                           ELSE Response(400, "noQuery", Undefined, Undefined, Undefined)
                    ELSE RouterPipeline(text),
           store |-> r.store, set |-> r.set]

\* createHandler(parseBody): the response and the store afterwards
createHandler(body, c, n) ==
  IF body.malformed
    THEN [resp |-> Response(400, "bodyParseError", Undefined, Undefined, Undefined),
          store |-> [cache |-> c, counter |-> n], set |-> << >>]
  ELSE LET r == resolvePersistedQuery(body, c, n)
       IN [resp |-> IF r.tag = "Left" THEN ApqError(r.error)
                    ELSE IF ~Truthy(r.query)
                      THEN Response(400, "noQuery", Undefined, Undefined, Undefined)
                    ELSE RouterPipeline(r.query),
           store |-> r.store, set |-> r.set]

\* History of the register-on-miss exchange of C4:
\*   step 1 after a hash-only request for a never registered hash,
\*   step 2 after the request that follows it with the query of that hash,
\*   step 3 after the hash-only request that follows that one.
HashOnly(body) ==
  /\ ~body.malformed
  /\ body.ext.tag = "pq" /\ body.ext.version = 1
  /\ ~Truthy(body.query)

WithQuery(body) ==
  /\ ~body.malformed
  /\ body.ext.tag = "pq" /\ body.ext.version = 1
  /\ Truthy(body.query)
  /\ body.ext.sha256Hash = computeHash(body.query, hashAlgorithm)

NoChain == [step |-> 0]

NextChain(body, resp) ==
  IF /\ chain.step = 2 /\ HashOnly(body) /\ body.ext.sha256Hash = chain.hash
    THEN [step |-> 3, hash |-> chain.hash, query |-> chain.query,
          resp |-> chain.resp]
  ELSE IF /\ chain.step = 1 /\ WithQuery(body) /\ body.ext.sha256Hash = chain.hash
    THEN [step |-> 2, hash |-> chain.hash, query |-> body.query, resp |-> resp]
  ELSE IF HashOnly(body) /\ body.ext.sha256Hash \notin registered
    THEN [step |-> 1, hash |-> body.ext.sha256Hash, query |-> Undefined,
          resp |-> resp]
  ELSE NoChain

\* Requests for a hash that names a member of Object.prototype, sent to a
\* router whose store is the safelist store.
SafelistProbes ==
  {Body(q, ExtPq(1, h)) : q \in {Undefined, "q1"}, h \in ObjectPrototypeKeys}

\* The bodies a router with the given store is sent.
Requests(kind) == RawBodies \cup (IF kind = "safelist" THEN SafelistProbes ELSE {})

\* One request through the POST or the GET handler.
Handle(method, raw) ==
  LET body == IF method = "GET" THEN parseGetRequestBody(raw) ELSE raw
      out == createHandler(body, cache, accessCounter)
  IN /\ out.store.counter <= MaxRouterAccess
     /\ cache' = out.store.cache
     /\ accessCounter' = out.store.counter
     /\ lastReq' = <<[method |-> method, body |-> body]>>
     /\ lastResp' = <<out.resp>>
     /\ registered' = registered \cup {out.set[i] : i \in 1..Len(out.set)}
     /\ chain' = NextChain(body, out.resp)
     /\ UNCHANGED <<maxSize, ret, recency, mode, validateHashOption,
                    hashAlgorithm, enableGet, storeKind, queries, pipelineVars,
                    subVars, otherVars>>

\* postHandler
HandlePost == \E raw \in Requests(storeKind) : Handle("POST", raw)

\* getHandler, routed only `if (enableGet)`
HandleGet == enableGet /\ \E raw \in Requests(storeKind) : Handle("GET", raw)

\* Safelists the model pre-loads: none, one entry, two entries.
Safelists ==
  {<< >>, [h \in {"a1"} |-> "q1"], [h \in {"a1", "b1"} |-> IF h = "a1" THEN "q1" ELSE "q2"]}

InitRouter ==
  /\ PipelineIdle
  /\ SubIdle
  /\ OtherIdle
  /\ accessCounter = 0
  /\ cache = << >>
  /\ ret = Void
  /\ recency = << >>
  /\ mode \in {"apq", "safelist"}
  /\ validateHashOption \in BOOLEAN
  /\ hashAlgorithm \in {"sha256", "sha512"}
  /\ enableGet \in BOOLEAN
  /\ \/ /\ storeKind = "memory"
        /\ \E config \in {<< >>} \cup {<<n>> : n \in 0..MaxCap} :
             maxSize = ResolveMaxSize(config)
        /\ queries = << >>
     \/ /\ mode = "safelist"
        /\ storeKind = "safelist"
        /\ maxSize = 0
        /\ queries \in Safelists
  /\ lastReq = << >>
  /\ lastResp = << >>
  /\ chain = NoChain
  /\ registered = {}

NextRouter == HandlePost \/ HandleGet

SpecRouter == InitRouter /\ [][NextRouter]_vars

\* ------------------------------------------------------------ claims C4, C5

\* What C4 says of the exchange, step by step: the hash-only request for a
\* never registered hash answers PERSISTED_QUERY_NOT_FOUND; the request that
\* follows with Q and H = hash(Q) runs Q and leaves H registered with Q; the
\* hash-only request that follows runs Q again and answers the same.
RegisterOnMissRoundTrip ==
  /\ chain.step = 1 => chain.resp = ApqError(PersistedQueryNotFoundError(chain.hash))
  /\ chain.step = 2 =>
       /\ chain.resp = RouterPipeline(chain.query)
       /\ MapHas(cache, chain.hash)
       /\ cache[MapIndex(cache, chain.hash)].query = chain.query
  /\ chain.step = 3 =>
       /\ lastResp[1] = RouterPipeline(chain.query)
       /\ lastResp[1] = chain.resp

\* C4 (as stated): on a router in APQ mode, a hash-only request for a never
\* registered H answers PERSISTED_QUERY_NOT_FOUND, the following request with
\* Q and H = hash(Q) executes Q and registers H, and the following hash-only
\* request for H executes Q and returns the same data, by POST or by GET.
C4_RegisterOnMissAnyStore == mode = "apq" => RegisterOnMissRoundTrip

\* C4 (amended): the same, for a router whose in-memory store has a capacity
\* of at least one entry; with capacity 0 the entry set for H is evicted by
\* the very set that stored it.
C4_RegisterOnMissRoundTrip ==
  (mode = "apq" /\ storeKind = "memory" /\ maxSize >= 1) => RegisterOnMissRoundTrip

\* The exchange completed, its third request by GET, with data returned.
C4_Witness ==
  /\ mode = "apq" /\ storeKind = "memory" /\ maxSize >= 1
  /\ chain.step = 3
  /\ lastReq[1].method = "GET"
  /\ lastResp[1].kind = "result"
  /\ lastResp[1].data = ExecuteData(chain.query)

\* C5: with validateHash on and mode "apq", every entry of the store has
\* key = computeHash(text, hashAlgorithm), and a hash-only request that ran a
\* text ran one whose hash is the hash requested.
C5_StoredPairsHashConsistent ==
  (validateHashOption /\ mode = "apq") =>
    /\ \A i \in 1..Len(cache) :
         cache[i].key = computeHash(cache[i].query, hashAlgorithm)
    /\ (Len(lastReq) = 1 /\ HashOnly(lastReq[1].body) /\ lastResp[1].query # Undefined) =>
         computeHash(lastResp[1].query, hashAlgorithm) = lastReq[1].body.ext.sha256Hash

\* A hash-only request answered from a store that holds a validated entry.
C5_Witness ==
  /\ validateHashOption /\ mode = "apq"
  /\ Len(cache) >= 1
  /\ Len(lastReq) = 1 /\ HashOnly(lastReq[1].body)
  /\ lastResp[1].kind = "result"

\* =====================================================================
\* Request pipeline: execute (builder/execute.ts) and graphqlHandler
\* (server/router.ts)
\* =====================================================================

\* Number of registered extensions.
NumExt == 2

\* The four hook points of GraphQLExtension.
PhaseSet == {"onParse", "onValidate", "onExecuteStart", "onExecuteEnd"}

\* The texts the pipeline is run on.
PipelineTexts == {"q1", "inv", "bad"}

\* How a hook ends: the effect it returns succeeds, fails (Effect.fail) or
\* dies (a defect), or the hook function throws before it returns an effect.
HookOutcomes == {"succeed", "fail", "die", "throw"}

\* Ref.make({}): a bag holds, per key, the value last set; keys are the
\* extensions' names, a value names the hook that wrote it.
EmptyBag == [k \in 1..NumExt |-> Undefined]

\* Object.keys(extensionData)
BagKeys(b) == {k \in DOMAIN b : b[k] # Undefined}

\* ExtensionsService.set(key, value): Ref.update, never undone
BagSet(b, key, value) == [b EXCEPT ![key] = value]

\* extensions.filter((ext) => ext.<hook> !== undefined), registration order
Filtered(exts, phase) ==
  SelectSeq([i \in 1..Len(exts) |-> i], LAMBDA i : phase \in exts[i])

\* ext.<hook>(...).pipe(Effect.catchAllCause(cause => Effect.logWarning(...))):
\* whatever the cause of the effect the hook returned, the wrapped effect
\* succeeds; a throw of the call ext.<hook>(...) itself is a defect of
\* Effect.forEach, outside the wrapper.
HookCaught(outcome) == outcome # "throw"

\* a pipeline that executes straight after the post-parse hooks
AfterHooksExecuteFirst(phase, h, src, cx) ==
  CASE phase = "onParse" -> "execute"
    [] phase = "onValidate" -> "onExecuteStart"
    [] phase = "onExecuteStart" -> "validate"
    [] OTHER -> "assembly"

\* The statement that follows the run of one phase's hooks.
AfterHooks(phase, h, src, cx) ==
  CASE phase = "onParse" -> "validate"
    [] phase = "onValidate" ->
         IF Len(ValidationErrors(src)) > 0 THEN "assembly"
         ELSE IF h = "router" /\ cx # "none" THEN "complexity"
         ELSE "onExecuteStart"
    [] phase = "onExecuteStart" -> "execute"
    [] OTHER -> "assembly"

\* The response built at the return site reached: HTTP status (0: execute()
\* returns an ExecutionResult, not an HTTP response), kind, data, extensions.
PipelineResponse(status, kind, data, exts) ==
  [status |-> status, kind |-> kind, data |-> data, extensions |-> exts]

\* The limits of a complexity configuration; Unset: the limit is not configured.
MaxLimit == 2
Unset == -1
LimitValues == {Unset} \cup 1..MaxLimit
ComplexityConfigs ==
  {[maxComplexity |-> c, maxFields |-> f] : c \in LimitValues, f \in {Unset, 1}}

\* The metrics of a document under the default field cost 1; "q1" is { a b }.
ComplexityResult(src) ==
  [complexity |-> 2, depth |-> 1, fieldCount |-> 2, aliasCount |-> 0]

ComplexityLimitExceededError(limitType, limit, actual) ==
  [limitType |-> limitType, limit |-> limit, actual |-> actual]

\* validateComplexity: each configured limit is compared with its metric, the
\* first one violated fails; << >> when none is.
validateComplexity(src, config) ==
  LET result == ComplexityResult(src)
  IN IF config.maxComplexity # Unset /\ result.complexity > config.maxComplexity
       THEN <<ComplexityLimitExceededError("complexity", config.maxComplexity,
                                           result.complexity)>>
     ELSE IF config.maxFields # Unset /\ result.fieldCount > config.maxFields
       THEN <<ComplexityLimitExceededError("fields", config.maxFields,
                                           result.fieldCount)>>
     ELSE << >>

\* The answer of catchAll to a ComplexityLimitExceededError
ComplexityExceededResponse(error) ==
  [status |-> 400, kind |-> "complexityExceeded", data |-> Undefined,
   extensions |-> EmptyBag,
   errors |-> <<[extensions |-> [code |-> "COMPLEXITY_LIMIT_EXCEEDED",
                                 limitType |-> error.limitType,
                                 limit |-> error.limit,
                                 actual |-> error.actual]]>>]

AssembledResponse(h, src, exceeded, b) ==
  IF ~ParseOk(src)
    THEN PipelineResponse(IF h = "router" THEN 200 ELSE 0, "parseError", Undefined, b)
  ELSE IF Len(ValidationErrors(src)) > 0
    THEN PipelineResponse(IF h = "router" THEN 400 ELSE 0, "validationError", Undefined, b)
  ELSE IF Len(exceeded) = 1
    THEN ComplexityExceededResponse(exceeded[1])
  ELSE PipelineResponse(IF h = "router" THEN 200 ELSE 0, "result", ExecuteData(src), b)

\* No catchAllCause(errorHandler) at the end of the handler: the failure is
\* the handler's own and nothing is answered.
FailedUnanswered(h) ==
  PipelineResponse(0, "failed", Undefined, EmptyBag)

\* The request failed: execute() fails, graphqlHandler answers through errorHandler.
FailedResponse(h) ==
  PipelineResponse(IF h = "router" THEN 500 ELSE 0, "failed", Undefined, EmptyBag)

\* What an internal failure is made of: the message and stack of the error
\* thrown, which differ from one failure to the next.
FailureDetails == {"TypeError at resolver.ts:12", "connect ECONNREFUSED 10.0.0.5"}

\* Cause.fail(new Error(String(error))) and Cause.die(defect)
Fail(detail) == [kind |-> "Fail", detail |-> detail]
Die(detail) == [kind |-> "Die", detail |-> detail]

Causes == {Fail(d) : d \in FailureDetails} \cup {Die(d) : d \in FailureDetails}

\* an error handler that answers with what the cause holds
errorHandlerExposingCause(c) ==
  [FailedResponse("router") EXCEPT !.data = c.detail]

\* defaultErrorHandler: the cause is logged outside production and the fixed
\* body { errors: [{ message: "An error occurred processing your request" }] }
\* is answered with status 500.
defaultErrorHandler(c) == FailedResponse("router")

\* Effect.catchAllCause(errorHandler) of graphqlHandler; execute() alone fails.
Answer(h, c) == IF h = "router" THEN defaultErrorHandler(c) ELSE FailedResponse(h)

Last(seq) == seq[Len(seq)]

PipelineUnchanged == UNCHANGED <<storeVars, routerVars, subVars, otherVars, handler, source,
                                 complexityOutcome, complexityConfig, extensions>>

\* a parse phase that goes on to the hooks whatever parse(source) did
ParseIgnoringError ==
  /\ pc = "parse"
  /\ trace' = Append(trace, "parse")
  /\ pc' = "onParse"
  /\ cursor' = 1
  /\ UNCHANGED <<ran, bag, cleanBag, hookExit, response>>
  /\ UNCHANGED cause
  /\ PipelineUnchanged

\* Phase 1: parse(source) in try/catch
Parse ==
  /\ pc = "parse"
  /\ trace' = Append(trace, "parse")
  /\ IF ParseOk(source)
       THEN pc' = "onParse" /\ cursor' = 1
       ELSE pc' = "assembly" /\ cursor' = cursor
  /\ UNCHANGED <<ran, bag, cleanBag, hookExit, response>>
  /\ UNCHANGED cause
  /\ PipelineUnchanged

\* One iteration of Effect.forEach in run<Phase>Hooks: the next extension that
\* defines the hook runs it; the effect of the hook may write to the bag
\* before it ends. A defect of the forEach ends the request: execute() dies,
\* graphqlHandler answers through errorHandler.
RunHook ==
  /\ pc \in PhaseSet
  /\ cursor <= Len(Filtered(extensions, pc))
  /\ \E writes \in BOOLEAN, outcome \in HookOutcomes :
       LET ext == Filtered(extensions, pc)[cursor]
       IN /\ ran' = Append(ran, <<pc, ext>>)
          /\ bag' = IF writes /\ outcome # "throw" THEN BagSet(bag, ext, pc) ELSE bag
          /\ cleanBag' = IF writes /\ outcome = "succeed"
                           THEN BagSet(cleanBag, ext, pc) ELSE cleanBag
          /\ hookExit' = IF outcome = "throw" THEN "threw"
                         ELSE IF outcome = "succeed" THEN hookExit
                         ELSE "failed"
          /\ IF HookCaught(outcome)
               THEN /\ cursor' = cursor + 1
                    /\ UNCHANGED <<pc, response, cause>>
               ELSE /\ pc' = "done"
                    /\ \E detail \in FailureDetails :
                         /\ cause' = <<Die(detail)>>
                         /\ response' = <<Answer(handler, cause'[1])>>
                    /\ cursor' = cursor
  /\ UNCHANGED trace
  /\ PipelineUnchanged

\* Effect.forEach is through the list: the pipeline goes on after the hooks.
FinishHooks ==
  /\ pc \in PhaseSet
  /\ cursor > Len(Filtered(extensions, pc))
  /\ trace' = Append(trace, pc)
  /\ pc' = AfterHooks(pc, handler, source, complexityOutcome)
  /\ cursor' = IF pc' \in PhaseSet THEN 1 ELSE cursor
  /\ UNCHANGED <<ran, bag, cleanBag, hookExit, response>>
  /\ UNCHANGED cause
  /\ PipelineUnchanged

\* Phase 2: validate(schema, document)
Validate ==
  /\ pc = "validate"
  /\ trace' = Append(trace, "validate")
  /\ pc' = "onValidate"
  /\ cursor' = 1
  /\ UNCHANGED <<ran, bag, cleanBag, hookExit, response>>
  /\ UNCHANGED cause
  /\ PipelineUnchanged

\* a gate that only reports: whatever validateComplexity finds, execution goes on
ComplexityWarnOnly ==
  /\ pc = "complexity"
  /\ trace' = Append(trace, "complexity")
  /\ pc' = "onExecuteStart"
  /\ cursor' = 1
  /\ UNCHANGED <<ran, bag, cleanBag, hookExit, response>>
  /\ UNCHANGED cause
  /\ PipelineUnchanged

\* validateComplexity(...) with its two catchTags: a limit exceeded fails the
\* generator (answered by catchAll), an analysis error is logged and passed.
Complexity ==
  /\ pc = "complexity"
  /\ trace' = Append(trace, "complexity")
  /\ IF complexityOutcome = "exceeded"
       THEN pc' = "assembly" /\ cursor' = cursor
       ELSE pc' = "onExecuteStart" /\ cursor' = 1
  /\ UNCHANGED <<ran, bag, cleanBag, hookExit, response>>
  /\ UNCHANGED cause
  /\ PipelineUnchanged

\* Phase 3: graphqlExecute inside Effect.try. A call that throws fails the
\* effect with an Error: execute() fails with it, graphqlHandler hands the
\* cause to errorHandler.
Execute ==
  /\ pc = "execute"
  /\ trace' = Append(trace, "execute")
  /\ \E throws \in BOOLEAN :
       IF throws
         THEN /\ pc' = "done"
              /\ \E detail \in FailureDetails :
                   /\ cause' = <<Fail(detail)>>
                   /\ response' = <<Answer(handler, cause'[1])>>
              /\ cursor' = cursor
         ELSE /\ pc' = "onExecuteEnd"
              /\ cursor' = 1
              /\ response' = response
              /\ cause' = cause
  /\ UNCHANGED <<ran, bag, cleanBag, hookExit>>
  /\ PipelineUnchanged

\* The return sites: extensionsService.get() and the response (the answer to
\* ComplexityLimitExceededError is built without reading the bag).
Assembly ==
  /\ pc = "assembly"
  /\ trace' = Append(trace, "assembly")
  /\ response' = <<AssembledResponse(handler, source,
                                     IF Last(trace) = "complexity"
                                       THEN validateComplexity(source, complexityConfig[1])
                                       ELSE << >>,
                                     bag)>>
  /\ pc' = "done"
  /\ UNCHANGED <<cursor, ran, bag, cleanBag, hookExit>>
  /\ UNCHANGED cause
  /\ PipelineUnchanged

\* No store call made.
StoreIdle ==
  /\ accessCounter = 0
  /\ maxSize = DefaultMaxSize
  /\ cache = << >>
  /\ ret = Void
  /\ recency = << >>

InitPipeline ==
  /\ StoreIdle
  /\ RouterIdle
  /\ SubIdle
  /\ OtherIdle
  /\ handler \in {"router", "execute"}
  /\ source \in PipelineTexts
  /\ complexityConfig \in
       IF handler = "router" THEN {<< >>} \cup {<<c>> : c \in ComplexityConfigs}
       ELSE {<< >>}
  /\ complexityOutcome \in
       IF Len(complexityConfig) = 0 THEN {"none"}
       ELSE {"analysisError",
             IF Len(validateComplexity(source, complexityConfig[1])) = 1
               THEN "exceeded" ELSE "pass"}
  /\ extensions \in [1..NumExt -> SUBSET PhaseSet]
  /\ pc = "parse"
  /\ cursor = 0
  /\ trace = << >>
  /\ ran = << >>
  /\ bag = EmptyBag
  /\ cleanBag = EmptyBag
  /\ hookExit = "ok"
  /\ response = << >>
  /\ cause = << >>

NextPipeline ==
  \/ Parse
  \/ RunHook
  \/ FinishHooks
  \/ Validate
  \/ Complexity
  \/ Execute
  \/ Assembly

SpecPipeline == InitPipeline /\ [][NextPipeline]_vars

\* ------------------------------------------------------------ claims C6, C7

\* The order of C6.
StepOrder ==
  <<"parse", "onParse", "validate", "onValidate", "complexity",
    "onExecuteStart", "execute", "onExecuteEnd", "assembly">>

StepIndex(step) == CHOOSE i \in 1..Len(StepOrder) : StepOrder[i] = step

InTrace(step) == \E i \in 1..Len(trace) : trace[i] = step

\* The hooks of the phases through, and of the phase in progress those the
\* cursor has passed, phase by phase in the order of C6 and in registration
\* order within a phase.
RECURSIVE HooksOf(_, _)
HooksOf(phases, upto) ==
  IF Len(phases) = 0 THEN << >>
  ELSE LET p == Head(phases)
           f == Filtered(extensions, p)
           n == IF InTrace(p) THEN Len(f)
                ELSE IF pc = p THEN upto
                ELSE 0
       IN [i \in 1..n |-> <<p, f[i]>>] \o HooksOf(Tail(phases), upto)

ExpectedRan ==
  HooksOf(<<"onParse", "onValidate", "onExecuteStart", "onExecuteEnd">>, cursor - 1)

\* The request ended in the execute step: graphqlExecute threw.
ExecuteThrew == pc = "done" /\ Len(trace) > 0 /\ Last(trace) = "execute"

\* The steps a request goes through when every hook succeeds and execute
\* returns.
ReferenceTrace(h, src, cx) ==
  IF ~ParseOk(src) THEN <<"parse", "assembly">>
  ELSE IF Len(ValidationErrors(src)) > 0
    THEN <<"parse", "onParse", "validate", "onValidate", "assembly">>
  ELSE IF h = "router" /\ cx = "exceeded"
    THEN <<"parse", "onParse", "validate", "onValidate", "complexity", "assembly">>
  ELSE IF h = "router" /\ cx # "none" THEN StepOrder
  ELSE SelectSeq(StepOrder, LAMBDA st : st # "complexity")

\* C6: the steps of a pipeline run occur in the order parse, post-parse
\* hooks, validate, post-validate hooks, complexity gate (only if configured),
\* pre-execute hooks, execute, post-execute hooks, assembly, one after the
\* other; the hooks run inside their phase, in registration order; and the
\* bag is read, at assembly, only when the hooks of every phase entered are
\* through, so that what the response carries is the bag they left.
C6_PipelineOrder ==
  /\ \A i, j \in 1..Len(trace) : i < j => StepIndex(trace[i]) < StepIndex(trace[j])
  /\ InTrace("complexity") => (handler = "router" /\ complexityOutcome # "none")
  /\ (InTrace("onExecuteStart") /\ handler = "router" /\ complexityOutcome # "none")
       => InTrace("complexity")
  /\ pc \in PhaseSet => (Len(trace) > 0 /\ StepIndex(pc) = StepIndex(Last(trace)) + 1)
                        \/ (pc = "onExecuteStart" /\ Last(trace) = "onValidate")
  /\ hookExit # "threw" => ran = ExpectedRan
  /\ Len(response) = 1 =>
       /\ pc = "done"
       /\ (hookExit # "threw" /\ ~ExecuteThrew) =>
            trace = ReferenceTrace(handler, source, complexityOutcome)
       /\ response[1].kind \in {"parseError", "validationError", "result"}
            => response[1].extensions = bag

\* A complete run through the complexity gate with hooks in several phases
\* and something written to the bag.
C6_Witness ==
  /\ pc = "done"
  /\ response[1].kind = "result"
  /\ InTrace("complexity")
  /\ Len(ran) >= 3
  /\ BagKeys(response[1].extensions) # {}

\* the error the complexity gate failed with, if it ran and a limit was exceeded
ExceededError ==
  IF InTrace("complexity") /\ complexityOutcome = "exceeded"
    THEN validateComplexity(source, complexityConfig[1])
    ELSE << >>

\* What C7 says but for the response: the request did not fail unless
\* execute itself threw, every hook of every phase reached ran in
\* registration order, and the phases are those of a run in which every hook
\* succeeds.
HookFailureIsolated ==
  /\ (Len(response) = 1 /\ ~ExecuteThrew) => response[1].kind # "failed"
  /\ ran = ExpectedRan
  /\ (pc = "done" /\ ~ExecuteThrew) =>
       trace = ReferenceTrace(handler, source, complexityOutcome)

\* C7: a hook that fails or dies, in whatever way (the effect it returned
\* fails or dies, or the hook throws when it is called), never fails the
\* request: the response is not that of a failed request, the remaining
\* hooks of the phase and of the later phases run in registration order, and
\* the phases are those of a run in which every hook succeeds.
C7_HookNeverFailsRequest ==
  hookExit # "ok" => HookFailureIsolated

\* The last part of C7 for a hook whose effect fails or dies: the response is
\* that of a run in which the hook succeeded without writing extensions.
FailedHookWritesNothing ==
  (hookExit = "failed" /\ pc = "done" /\ ~ExecuteThrew) =>
    response[1] = AssembledResponse(handler, source, ExceededError, cleanBag)

\* What holds of a hook whose effect fails or dies: the request does not
\* fail, every hook runs, and the response is that of a run in which the
\* hook succeeded after the same writes to the bag.
FailedEffectIsolated ==
  hookExit = "failed" =>
    /\ HookFailureIsolated
    /\ (pc = "done" /\ ~ExecuteThrew) =>
         response[1] = AssembledResponse(handler, source, ExceededError, bag)

\* =====================================================================
\* Subscriptions: makeGraphQLWSHandler (the graphql-ws server driven from an
\* Effect socket) and makeSSESubscriptionStream
\* =====================================================================

\* Operation ids a client uses on one connection.
MaxIds == 2

\* Most events one subscription's iterator yields.
MaxEvents == 2

\* Most messages a client sends on one connection.
MaxClientMsgs == 4

Ids == 1..MaxIds

\* Client -> server messages of the graphql-ws protocol.
ConnectionInit == [type |-> "connection_init", id |-> 0]
SubscribeMsg(id) == [type |-> "subscribe", id |-> id]
CompleteMsg(id) == [type |-> "complete", id |-> id]

ClientMessages ==
  {ConnectionInit} \cup {SubscribeMsg(id) : id \in Ids} \cup {CompleteMsg(id) : id \in Ids}

\* The async iterator subscribe() returned for an id: which operation of that
\* id it belongs to (run), the events it has yielded, where it stands (live,
\* hung: it will never settle next() again, done, thrown, returned), and how
\* often return() was invoked on it.
NoIterator == [run |-> 0, yielded |-> 0, status |-> "none", returns |-> 0]
NewIterator(prev) ==
  [run |-> prev.run + 1, yielded |-> 0, status |-> "live", returns |-> 0]

\* a cleanup that sets `done` and leaves the iterator alone
ReturnNotInvoked(it) == it

\* iterator.return(): a live or hung iterator ends; a finished one stays so
Return(it) ==
  [it EXCEPT !.status = IF @ \in {"live", "hung"} THEN "returned" ELSE @,
             !.returns = @ + 1]

\* JSON.stringify of an event; the k-th event of an iterator carries k
JsonStringify(v) == ToString(v)

\* Server -> client: graphql-ws messages, or SSE events (formatNextEvent,
\* formatErrorEvent, formatCompleteEvent). `run` is history, not on the wire.
ServerMsg(type, id, run, data) ==
  [type |-> type, id |-> id, run |-> run, data |-> data]

NextMsg(id, run, k) == ServerMsg("next", id, run, JsonStringify(k))
ErrorMsg(id, run, code) == ServerMsg("error", id, run, code)
CompleteOut(id, run) == ServerMsg("complete", id, run, "")
ConnectionAck == ServerMsg("connection_ack", 0, 0, "")

\* a transport that puts what it is given in front of what it sent before
SendFirst(w, open, msg) == IF open THEN <<msg>> \o w ELSE w

\* graphqlWsSocket.send / the SSE response stream: in order while open; a
\* send on a closed socket fails and is logged.
Send(w, open, msg) == IF open THEN Append(w, msg) ELSE w

\* processMessagesFiber is inside `yield* Effect.tryPromise(() => messageCallback(message))`
Blocked == Len(processing) = 1

\* The callback graphql-ws was given resolves: the fiber awaiting it goes on.
Resolve(message) == IF processing = <<message>> THEN << >> ELSE processing

\* GraphQLWSOptions as far as the connection handler is concerned: what the
\* onConnect hook does once called, and how the configured complexity limits
\* compare with the operations subscribed on the connection.
WsOptions ==
  {[onConnect |-> c, query |-> "subscription", complexity |-> x,
    onSubscribe |-> "unset", subscribe |-> "iterator", onDisconnect |-> "unset",
    handler |-> "socket", layer |-> "built"] :
     c \in {"unset", "succeeds", "returnsFalse", "fails"},
     x \in {"unset", "within", "exceeded"}}

\* a serverOptions.onConnect without its catch: only `false` refuses
WsOnConnectNoCatch(hook) == hook # "returnsFalse"

\* serverOptions.onConnect: `return result !== false`, `catch { return false }`;
\* without a hook graphql-ws permits the connection.
WsOnConnect(hook) == hook \notin {"returnsFalse", "fails"}

\* serverOptions.onSubscribe: the hook, if any, is awaited and nothing is
\* returned, so graphql-ws goes on to execute; options.complexity and
\* options.fieldComplexities are not read, whatever they hold.
WsOnSubscribe(opts) == "executes"

\* GraphQLSSEOptions, the request, and what the hooks and subscribe() do once
\* reached. onConnect "throws": the hook function throws when called; "fails"
\* and "dies": the effect it returned fails, or dies with a defect. handler:
\* who consumes the stream, a fiber that is interrupted when the client goes
\* ("stream") or createSSEHandler of the web and Bun packages ("web"). layer:
\* whether the layer given to the handler is built when the stream is pulled.
SseOptions ==
  [onConnect : {"unset", "succeeds", "fails", "dies", "throws"},
   query : {"subscription", "syntaxError", "invalid", "noOperation", "query"},
   complexity : {"unset", "within", "exceeded", "analysisFails"},
   onSubscribe : {"unset", "succeeds", "fails", "dies"},
   subscribe : {"iterator", "errors", "result", "rejects"},
   onDisconnect : {"unset", "set"},
   handler : {"stream", "web"},
   layer : {"built", "building"}]

\* Stream.make(formatErrorEvent([...]), formatCompleteEvent())
ErrorThenComplete(code) == <<ErrorMsg(1, 0, code), CompleteOut(1, 0)>>

\* What the setup effect of makeSSESubscriptionStream came to: what it invoked,
\* the events of the stream it returned, and whether that stream goes on to
\* iterate ("iterating"), is those events ("ended"), or the effect died.
SetupExit(invoked, events, exit) ==
  [steps |-> invoked, events |-> events, exit |-> exit]

\* subscribe() inside Effect.tryPromise, and the result that is no iterator
SseSubscribe(opts, invoked) ==
  LET now == Append(invoked, "subscribe")
  IN CASE opts.subscribe = "rejects" ->
            SetupExit(now, ErrorThenComplete("INTERNAL_ERROR"), "ended")
       [] opts.subscribe = "errors" ->
            SetupExit(now, ErrorThenComplete("result.errors"), "ended")
       [] opts.subscribe = "result" ->
            SetupExit(now, <<NextMsg(1, 0, 0), CompleteOut(1, 0)>>, "ended")
       [] OTHER -> SetupExit(now, << >>, "iterating")

\* options.onSubscribe under Effect.catchAll(() => Effect.void): a failure
\* is dropped, a defect is not.
SseOnSubscribe(opts, invoked) ==
  IF opts.onSubscribe = "unset"
    THEN SseSubscribe(opts, invoked)
    ELSE IF opts.onSubscribe = "dies"
      THEN SetupExit(Append(invoked, "onSubscribe"), << >>, "died")
      ELSE SseSubscribe(opts, Append(invoked, "onSubscribe"))

\* validateComplexity, if configured: over the limit is an error event, any
\* other failure is logged and the subscription goes on.
SseComplexity(opts, invoked) ==
  IF opts.complexity = "unset"
    THEN SseOnSubscribe(opts, invoked)
    ELSE IF opts.complexity = "exceeded"
      THEN SetupExit(Append(invoked, "validateComplexity"),
                     ErrorThenComplete("COMPLEXITY_LIMIT_EXCEEDED"), "ended")
      ELSE SseOnSubscribe(opts, Append(invoked, "validateComplexity"))

\* parse, validate, and the operation picked from the document
SseParseValidate(opts, invoked) ==
  LET parsed == Append(invoked, "parse")
      validated == Append(parsed, "validate")
  IN CASE opts.query = "syntaxError" ->
            SetupExit(parsed, ErrorThenComplete("syntaxError"), "ended")
       [] opts.query = "invalid" ->
            SetupExit(validated, ErrorThenComplete("validationErrors"), "ended")
       [] opts.query = "noOperation" ->
            SetupExit(validated, ErrorThenComplete("No operation found in query"),
                      "ended")
       [] opts.query = "query" ->
            SetupExit(validated, ErrorThenComplete("OPERATION_NOT_SUPPORTED"), "ended")
       [] OTHER -> SseComplexity(opts, validated)

\* The effect given to Stream.unwrap. `try { yield* onConnect(...) } catch`
\* receives what the hook function throws when called; the failure of the
\* effect it returned ends the generator and reaches the Effect.catchAll at
\* the end (INTERNAL_ERROR); a defect is caught by neither.
SseSetup(opts) ==
  IF opts.onConnect = "unset"
    THEN SseParseValidate(opts, << >>)
    ELSE CASE opts.onConnect = "throws" ->
                SetupExit(<<"onConnect">>, ErrorThenComplete("CONNECTION_REJECTED"),
                          "ended")
           [] opts.onConnect = "fails" ->
                SetupExit(<<"onConnect">>, ErrorThenComplete("INTERNAL_ERROR"), "ended")
           [] opts.onConnect = "dies" -> SetupExit(<<"onConnect">>, << >>, "died")
           [] OTHER -> SseParseValidate(opts, <<"onConnect">>)

\* the response stream takes an event: the consumer is there and, in the web
\* handler, controller.enqueue does not throw
Open == connected /\ ~cancelled

\* graphqlWsSocket.send reaches the client: the transport is open and
\* graphql-ws has not started to close it (a send on a closing socket fails,
\* and the failure is logged)
WsOpen == connected /\ closeCode = "none"

SubUnchanged ==
  UNCHANGED <<storeVars, routerVars, pipelineVars, otherVars, transport, options>>

\* What completes or fails closedDeferred: socket.closed resolving or failing
\* (closeFiber), socket.messages failing (messageFiber).
CloseSignals == {"closed", "closed failed", "messages failed"}

\* graphqlWsSocket.close(code): socket.close is started and the call returns;
\* the socket closes with the code of the first call.
Close(code) == closeCode' = IF closeCode = "none" THEN code ELSE closeCode

\* The callback graphql-ws was given for a message is pending at a wait.
Awaiting(message, at) == <<[message |-> message, at |-> at]>>

\* closedHandler(1000, ...) of graphql-ws: ctx.subscriptions emptied, return()
\* on the iterator of every subscription that held one (also one that is
\* exhausted and waits for its complete to be sent); a reserved id has no
\* iterator to return. Its promise is not awaited.
closedHandler ==
  /\ iter' = [id \in Ids |->
               IF subscriptions[id] = "active" THEN Return(iter[id]) ELSE iter[id]]
  /\ subscriptions' = [id \in Ids |-> "none"]

\* messageFiber: a message of socket.messages is offered to the queue, while
\* the stream has not failed and the fiber is not interrupted.
ClientSend ==
  /\ transport = "ws"
  /\ connected
  /\ closedDeferred # "messages failed"
  /\ ~completed
  /\ clientSent < MaxClientMsgs
  /\ \E message \in ClientMessages : messageQueue' = Append(messageQueue, message)
  /\ clientSent' = clientSent + 1
  /\ UNCHANGED <<connected, acknowledged, processing, callback, subscriptions, iter,
                 wire>>
  /\ UNCHANGED <<closeCode, connectionInitReceived, closedDeferred, resumed, completed>>
  /\ UNCHANGED <<steps, cancelled, waitingAt>>
  /\ SubUnchanged

\* processMessagesFiber: Queue.take, then the onMessage callback of graphql-ws
\* up to its first wait. A ConnectionInit waits for the onConnect hook; an
\* accepted Subscribe reserves its id and waits for onSubscribe, context and
\* subscribe(); the fiber awaits the callback. A protocol violation asks the
\* socket to close and the callback resolves: the fiber goes on taking
\* messages until it is interrupted.
TakeMessage ==
  /\ transport = "ws"
  /\ ~completed
  /\ ~Blocked
  /\ Len(messageQueue) > 0
  /\ messageQueue' = Tail(messageQueue)
  /\ LET message == Head(messageQueue)
         id == message.id
     IN CASE message.type = "connection_init" ->
               IF connectionInitReceived
                 THEN /\ Close("4429")
                      /\ UNCHANGED <<connectionInitReceived, processing, callback,
                                     subscriptions, iter>>
                 ELSE /\ connectionInitReceived' = TRUE
                      /\ processing' = <<message>>
                      /\ callback' = Awaiting(message, "onConnect")
                      /\ UNCHANGED <<closeCode, subscriptions, iter>>
          [] message.type = "subscribe" ->
               IF ~acknowledged
                 THEN /\ Close("4401")
                      /\ UNCHANGED <<connectionInitReceived, processing, callback,
                                     subscriptions, iter>>
                 ELSE IF subscriptions[id] # "none"
                   THEN /\ Close("4409")
                        /\ UNCHANGED <<connectionInitReceived, processing, callback,
                                       subscriptions, iter>>
                   ELSE /\ subscriptions' = [subscriptions EXCEPT ![id] = "reserved"]
                        /\ processing' = <<message>>
                        /\ callback' = Awaiting(message, "subscribe")
                        /\ UNCHANGED <<connectionInitReceived, closeCode, iter>>
          [] OTHER ->
               /\ subscriptions' = [subscriptions EXCEPT ![id] = "none"]
               /\ iter' = IF subscriptions[id] = "active"
                            THEN [iter EXCEPT ![id] = Return(iter[id])]
                            ELSE iter
               /\ UNCHANGED <<connectionInitReceived, closeCode, processing, callback>>
  /\ UNCHANGED <<connected, acknowledged, clientSent, wire, closedDeferred, resumed,
                 completed>>
  /\ UNCHANGED <<steps, cancelled, waitingAt>>
  /\ SubUnchanged

\* The onConnect hook the ConnectionInit callback awaits has settled: a
\* refusal asks the socket to close with 4403; otherwise the ack is sent and
\* the callback waits for the send.
WsOnConnectDone ==
  /\ transport = "ws"
  /\ callback = Awaiting(ConnectionInit, "onConnect")
  /\ IF WsOnConnect(options.onConnect)
       THEN /\ wire' = Send(wire, WsOpen, ConnectionAck)
            /\ callback' = Awaiting(ConnectionInit, "ack")
            /\ UNCHANGED <<closeCode, processing>>
       ELSE /\ Close("4403")
            /\ callback' = << >>
            /\ processing' = Resolve(ConnectionInit)
            /\ UNCHANGED wire
  /\ UNCHANGED <<connected, acknowledged, clientSent, messageQueue, subscriptions,
                 iter>>
  /\ UNCHANGED <<connectionInitReceived, closedDeferred, resumed, completed>>
  /\ UNCHANGED <<steps, cancelled, waitingAt>>
  /\ SubUnchanged

\* `await socket.send(ConnectionAck)` is over: ctx.acknowledged = true and the
\* callback resolves.
WsAcked ==
  /\ transport = "ws"
  /\ callback = Awaiting(ConnectionInit, "ack")
  /\ acknowledged' = TRUE
  /\ callback' = << >>
  /\ processing' = Resolve(ConnectionInit)
  /\ UNCHANGED <<connected, clientSent, messageQueue, subscriptions, iter, wire>>
  /\ UNCHANGED <<closeCode, connectionInitReceived, closedDeferred, resumed, completed>>
  /\ UNCHANGED <<steps, cancelled, waitingAt>>
  /\ SubUnchanged

\* What the Subscribe callback awaited before iterating has settled
\* (serverOptions.onSubscribe, context, `await subscribe(args)`). An operation
\* refused by onSubscribe is answered with an error. With the id still
\* reserved the iterator becomes the subscription and `for await` starts;
\* with the id gone (the closed handler ran meanwhile) the iterator is
\* returned at once and the callback resolves.
WsSubscribed ==
  /\ transport = "ws"
  /\ \E id \in Ids :
       /\ callback = Awaiting(SubscribeMsg(id), "subscribe")
       /\ IF WsOnSubscribe(options) # "executes"
            THEN /\ wire' = Send(wire, WsOpen,
                                 ErrorMsg(id, iter[id].run, WsOnSubscribe(options)))
                 /\ subscriptions' = [subscriptions EXCEPT ![id] = "none"]
                 /\ callback' = << >>
                 /\ processing' = Resolve(SubscribeMsg(id))
                 /\ UNCHANGED iter
            ELSE IF subscriptions[id] = "reserved"
              THEN /\ iter' = [iter EXCEPT ![id] = NewIterator(iter[id])]
                   /\ subscriptions' = [subscriptions EXCEPT ![id] = "active"]
                   /\ callback' = Awaiting(SubscribeMsg(id), "iterate")
                   /\ UNCHANGED <<processing, wire>>
              ELSE /\ iter' = [iter EXCEPT ![id] = Return(NewIterator(iter[id]))]
                   /\ callback' = << >>
                   /\ processing' = Resolve(SubscribeMsg(id))
                   /\ UNCHANGED <<subscriptions, wire>>
  /\ UNCHANGED <<connected, acknowledged, clientSent, messageQueue>>
  /\ UNCHANGED <<closeCode, connectionInitReceived, closedDeferred, resumed, completed>>
  /\ UNCHANGED <<steps, cancelled, waitingAt>>
  /\ SubUnchanged

\* The pending Subscribe callback: the iterator yields, emit.next sends it.
WsNext ==
  /\ transport = "ws"
  /\ \E id \in Ids :
       /\ callback = Awaiting(SubscribeMsg(id), "iterate")
       /\ iter[id].status = "live"
       /\ iter[id].yielded < MaxEvents
       /\ iter' = [iter EXCEPT ![id].yielded = @ + 1]
       /\ wire' = Send(wire, WsOpen, NextMsg(id, iter[id].run, iter[id].yielded + 1))
  /\ UNCHANGED <<connected, acknowledged, clientSent, messageQueue, processing,
                 callback, subscriptions>>
  /\ UNCHANGED <<closeCode, connectionInitReceived, closedDeferred, resumed, completed>>
  /\ UNCHANGED <<steps, cancelled, waitingAt>>
  /\ SubUnchanged

\* The iterator is exhausted: `for await` ends and emit.complete hands the
\* complete to the socket; the callback waits for the send, its id still in
\* ctx.subscriptions.
WsDone ==
  /\ transport = "ws"
  /\ \E id \in Ids :
       /\ callback = Awaiting(SubscribeMsg(id), "iterate")
       /\ iter[id].status = "live"
       /\ iter' = [iter EXCEPT ![id].status = "done"]
       /\ wire' = Send(wire, WsOpen /\ subscriptions[id] = "active",
                       CompleteOut(id, iter[id].run))
       /\ callback' = Awaiting(SubscribeMsg(id), "complete")
  /\ UNCHANGED <<connected, acknowledged, clientSent, messageQueue, processing,
                 subscriptions>>
  /\ UNCHANGED <<closeCode, connectionInitReceived, closedDeferred, resumed, completed>>
  /\ UNCHANGED <<steps, cancelled, waitingAt>>
  /\ SubUnchanged

\* The send of the complete is over: `finally { delete ctx.subscriptions[id] }`
\* and the callback resolves.
WsCompleted ==
  /\ transport = "ws"
  /\ \E id \in Ids :
       /\ callback = Awaiting(SubscribeMsg(id), "complete")
       /\ subscriptions' = [subscriptions EXCEPT ![id] = "none"]
       /\ callback' = << >>
       /\ processing' = Resolve(SubscribeMsg(id))
  /\ UNCHANGED <<connected, acknowledged, clientSent, messageQueue, iter, wire>>
  /\ UNCHANGED <<closeCode, connectionInitReceived, closedDeferred, resumed, completed>>
  /\ UNCHANGED <<steps, cancelled, waitingAt>>
  /\ SubUnchanged

\* The iterator throws: the callback rejects after its `finally`, and
\* `Effect.catchAll(() => Effect.void)` drops the rejection.
WsThrow ==
  /\ transport = "ws"
  /\ \E id \in Ids :
       /\ callback = Awaiting(SubscribeMsg(id), "iterate")
       /\ iter[id].status = "live"
       /\ iter' = [iter EXCEPT ![id].status = "thrown"]
       /\ subscriptions' = [subscriptions EXCEPT ![id] = "none"]
       /\ callback' = << >>
       /\ processing' = Resolve(SubscribeMsg(id))
  /\ UNCHANGED <<connected, acknowledged, clientSent, messageQueue, wire>>
  /\ UNCHANGED <<closeCode, connectionInitReceived, closedDeferred, resumed, completed>>
  /\ UNCHANGED <<steps, cancelled, waitingAt>>
  /\ SubUnchanged

\* The iterator the pending Subscribe callback iterates was returned by the
\* closed handler: its `for await` ends, nothing is sent for an id that is
\* gone, and the callback resolves.
WsReturned ==
  /\ transport = "ws"
  /\ \E id \in Ids :
       /\ callback = Awaiting(SubscribeMsg(id), "iterate")
       /\ iter[id].status = "returned"
       /\ callback' = << >>
       /\ processing' = Resolve(SubscribeMsg(id))
  /\ UNCHANGED <<connected, acknowledged, clientSent, messageQueue, subscriptions,
                 iter, wire>>
  /\ UNCHANGED <<closeCode, connectionInitReceived, closedDeferred, resumed, completed>>
  /\ UNCHANGED <<steps, cancelled, waitingAt>>
  /\ SubUnchanged

\* The iterator will not settle its next() again.
Hang ==
  /\ \E id \in Ids :
       /\ iter[id].status = "live"
       /\ iter' = [iter EXCEPT ![id].status = "hung"]
  /\ UNCHANGED <<connected, acknowledged, clientSent, messageQueue, processing,
                 callback, subscriptions, wire>>
  /\ UNCHANGED <<closeCode, connectionInitReceived, closedDeferred, resumed, completed>>
  /\ UNCHANGED <<steps, cancelled, waitingAt>>
  /\ SubUnchanged

\* closeFiber or messageFiber completes or fails closedDeferred. socket.closed
\* resolves when the transport has closed; when socket.closed or
\* socket.messages fails (the error handler of the adapter) the transport is
\* as open as it was, and the handler closes no socket.
SocketClose ==
  /\ transport = "ws"
  /\ closedDeferred = "pending"
  /\ \E signal \in CloseSignals :
       /\ closedDeferred' = signal
       /\ connected' = IF signal = "closed" THEN FALSE ELSE connected
  /\ UNCHANGED <<acknowledged, clientSent, messageQueue, processing, callback,
                 subscriptions, iter, wire>>
  /\ UNCHANGED <<closeCode, connectionInitReceived, resumed, completed>>
  /\ UNCHANGED <<steps, cancelled, waitingAt>>
  /\ SubUnchanged

\* The transport closes after closedDeferred was failed: the close handler of
\* the adapter finds the Deferred completed, and nothing of the handler is
\* told; from now on a send fails.
TransportClosed ==
  /\ transport = "ws"
  /\ connected
  /\ closedDeferred # "pending"
  /\ connected' = FALSE
  /\ UNCHANGED <<acknowledged, clientSent, messageQueue, processing, callback,
                 subscriptions, iter, wire>>
  /\ UNCHANGED <<closeCode, connectionInitReceived, closedDeferred, resumed, completed>>
  /\ UNCHANGED <<steps, cancelled, waitingAt>>
  /\ SubUnchanged

\* The main fiber resumes from Deferred.await(closedDeferred) (a failure is
\* mapped to a close event) and calls closedHandler without awaiting it.
AwaitClosed ==
  /\ transport = "ws"
  /\ closedDeferred # "pending"
  /\ ~resumed
  /\ resumed' = TRUE
  /\ closedHandler
  /\ UNCHANGED <<connected, acknowledged, clientSent, messageQueue, processing,
                 callback, wire>>
  /\ UNCHANGED <<closeCode, connectionInitReceived, closedDeferred, completed>>
  /\ UNCHANGED <<steps, cancelled, waitingAt>>
  /\ SubUnchanged

\* a cleanup that waits for the processing fiber to be through with the
\* callback it awaits instead of interrupting it
CleanupJoiningFibers ==
  /\ transport = "ws"
  /\ resumed
  /\ ~completed
  /\ ~Blocked
  /\ messageQueue' = << >>
  /\ processing' = << >>
  /\ completed' = TRUE
  /\ UNCHANGED <<connected, acknowledged, clientSent, callback, subscriptions, iter,
                 wire>>
  /\ UNCHANGED <<closeCode, connectionInitReceived, closedDeferred, resumed>>
  /\ UNCHANGED <<steps, cancelled, waitingAt>>
  /\ SubUnchanged

\* The rest of the handler after closedHandler was called: messageFiber,
\* closeFiber and processMessagesFiber are interrupted, the queue is shut
\* down, the handler's effect completes. The fiber no longer awaits the
\* callback; the callback itself, a promise of graphql-ws, stays pending, and
\* what graphql-ws holds is left as it is.
Cleanup ==
  /\ transport = "ws"
  /\ resumed
  /\ ~completed
  /\ messageQueue' = << >>
  /\ processing' = << >>
  /\ completed' = TRUE
  /\ UNCHANGED <<connected, acknowledged, clientSent, callback, subscriptions, iter,
                 wire>>
  /\ UNCHANGED <<closeCode, connectionInitReceived, closedDeferred, resumed>>
  /\ UNCHANGED <<steps, cancelled, waitingAt>>
  /\ SubUnchanged

\* Where the setup effect waits next once n of the steps it invokes are
\* behind it: the position of that step, or 0 when it runs to its end. It
\* waits at the yield* of the onConnect hook, of validateComplexity and of
\* the onSubscribe hook, and at Effect.tryPromise around subscribe(); an
\* onConnect that throws when it is called gives no effect to wait for.
NextWait(opts, n) ==
  LET invoked == SseSetup(opts).steps
      ahead == {k \in (n + 1)..Len(invoked) :
                  /\ invoked[k] \in {"onConnect", "validateComplexity",
                                     "onSubscribe", "subscribe"}
                  /\ ~(invoked[k] = "onConnect" /\ opts.onConnect = "throws")}
  IN IF ahead = {} THEN 0 ELSE CHOOSE k \in ahead : \A j \in ahead : k <= j

\* The setup effect runs on from after its n-th step: up to its next wait,
\* or to its end, where it gives the stream. A stream of fixed events is sent
\* and ends; a setup that died fails the stream with nothing sent; in the web
\* handler after a cancel, controller.enqueue throws on the first event.
SseRun(n) ==
  LET setup == SseSetup(options)
      k == NextWait(options, n)
  IN IF k # 0
       THEN /\ steps' = SubSeq(setup.steps, 1, k)
            /\ waitingAt' = setup.steps[k]
            /\ UNCHANGED <<wire, iter, connected>>
       ELSE /\ steps' = setup.steps
            /\ waitingAt' = "none"
            /\ wire' = IF Open THEN wire \o setup.events ELSE wire
            /\ iter' = IF setup.exit = "iterating"
                         THEN [iter EXCEPT ![1] = NewIterator(iter[1])]
                         ELSE iter
            /\ connected' = (setup.exit = "iterating")

\* The stream is pulled: the setup effect starts with
\* `yield* Effect.provide(Effect.runtime<R>(), layer)`, which waits while the
\* layer is being built and goes on at once when it is built.
SseStart ==
  /\ transport = "sse"
  /\ connected
  /\ steps = << >>
  /\ waitingAt = "none"
  /\ IF options.layer = "building"
       THEN /\ waitingAt' = "runtime"
            /\ UNCHANGED <<steps, wire, iter, connected>>
       ELSE SseRun(0)
  /\ UNCHANGED <<acknowledged, clientSent, messageQueue, processing, callback,
                 subscriptions>>
  /\ UNCHANGED <<closeCode, connectionInitReceived, closedDeferred, resumed, completed>>
  /\ UNCHANGED cancelled
  /\ SubUnchanged

\* What the setup effect waited for has settled: it runs on.
SseResume ==
  /\ transport = "sse"
  /\ connected
  /\ waitingAt # "none"
  /\ SseRun(Len(steps))
  /\ UNCHANGED <<acknowledged, clientSent, messageQueue, processing, callback,
                 subscriptions>>
  /\ UNCHANGED <<closeCode, connectionInitReceived, closedDeferred, resumed, completed>>
  /\ UNCHANGED cancelled
  /\ SubUnchanged

\* SSE iterate(): asyncIterator.next() gave a value, emit.single(formatNextEvent).
\* After a cancel of the web handler's ReadableStream controller.enqueue
\* throws inside Effect.sync: the stream dies and its cleanup runs.
SseNext ==
  /\ transport = "sse"
  /\ connected
  /\ iter[1].status = "live"
  /\ iter[1].yielded < MaxEvents
  /\ iter' = IF cancelled
               THEN [iter EXCEPT ![1] = Return([iter[1] EXCEPT !.yielded = @ + 1])]
               ELSE [iter EXCEPT ![1].yielded = @ + 1]
  /\ wire' = Send(wire, Open, NextMsg(1, iter[1].run, iter[1].yielded + 1))
  /\ connected' = ~cancelled
  /\ UNCHANGED <<acknowledged, clientSent, messageQueue, processing, callback,
                 subscriptions>>
  /\ UNCHANGED <<closeCode, connectionInitReceived, closedDeferred, resumed, completed>>
  /\ UNCHANGED <<steps, cancelled, waitingAt>>
  /\ SubUnchanged

\* result.done: emit.end(), the concatenated complete event, the stream ends
\* and the cleanup of Stream.async runs (done = true; asyncIterator.return?.()).
SseDone ==
  /\ transport = "sse"
  /\ connected
  /\ iter[1].status = "live"
  /\ iter' = [iter EXCEPT ![1] = Return([iter[1] EXCEPT !.status = "done"])]
  /\ wire' = Send(wire, Open, CompleteOut(1, iter[1].run))
  /\ connected' = FALSE
  /\ UNCHANGED <<acknowledged, clientSent, messageQueue, processing, callback,
                 subscriptions>>
  /\ UNCHANGED <<closeCode, connectionInitReceived, closedDeferred, resumed, completed>>
  /\ UNCHANGED <<steps, cancelled, waitingAt>>
  /\ SubUnchanged

\* What an iterator's next() rejects with: a GraphQLError carrying its own
\* extensions.code, a GraphQLError without extensions, or any other value.
ThrownErrors ==
  {[graphql |-> TRUE, code |-> "FORBIDDEN"],
   [graphql |-> TRUE, code |-> "none"],
   [graphql |-> FALSE, code |-> "none"]}

\* The error the catch of iterate() formats: a GraphQLError as it is, with
\* the code it has or none; anything else wrapped as SUBSCRIPTION_ERROR.
SseThrownCode(error) == IF error.graphql THEN error.code ELSE "SUBSCRIPTION_ERROR"

\* next() rejected: the catch of iterate() emits an error event and ends.
SseThrow ==
  /\ transport = "sse"
  /\ connected
  /\ iter[1].status = "live"
  /\ iter' = [iter EXCEPT ![1] = Return([iter[1] EXCEPT !.status = "thrown"])]
  /\ \E error \in ThrownErrors :
       wire' = IF Open
                 THEN wire \o <<ErrorMsg(1, iter[1].run, SseThrownCode(error)),
                                CompleteOut(1, iter[1].run)>>
                 ELSE wire
  /\ connected' = FALSE
  /\ UNCHANGED <<acknowledged, clientSent, messageQueue, processing, callback,
                 subscriptions>>
  /\ UNCHANGED <<closeCode, connectionInitReceived, closedDeferred, resumed, completed>>
  /\ UNCHANGED <<steps, cancelled, waitingAt>>
  /\ SubUnchanged

\* The client goes away from createSSEHandler's response: its ReadableStream
\* has a start() and no cancel(), so nothing of the handler is told, be it
\* in its setup or iterating.
SseCancel ==
  /\ transport = "sse"
  /\ options.handler = "web"
  /\ connected
  /\ steps # << >> \/ waitingAt # "none"
  /\ iter[1].status \in {"none", "live", "hung"}
  /\ ~cancelled
  /\ cancelled' = TRUE
  /\ UNCHANGED <<connected, acknowledged, clientSent, messageQueue, processing,
                 callback, subscriptions, iter, wire, steps, waitingAt>>
  /\ UNCHANGED <<closeCode, connectionInitReceived, closedDeferred, resumed, completed>>
  /\ SubUnchanged

\* The client goes away: the stream is interrupted, the setup effect where it
\* waits, or the event stream, whose cleanup runs.
SseDisconnect ==
  /\ transport = "sse"
  /\ options.handler = "stream"
  /\ connected
  /\ steps # << >> \/ waitingAt # "none"
  /\ iter' = IF iter[1].status = "none"
               THEN iter
               ELSE [iter EXCEPT ![1] = Return(iter[1])]
  /\ connected' = FALSE
  /\ cancelled' = TRUE
  /\ waitingAt' = "none"
  /\ UNCHANGED <<acknowledged, clientSent, messageQueue, processing, callback,
                 subscriptions, wire>>
  /\ UNCHANGED <<closeCode, connectionInitReceived, closedDeferred, resumed, completed>>
  /\ UNCHANGED steps
  /\ SubUnchanged

\* The setup was interrupted while Effect.tryPromise awaited subscribe(): the
\* promise is not cancelled, and subscribe() resolves with an iterator no one
\* holds.
SseSubscribeSettles ==
  /\ transport = "sse"
  /\ ~connected
  /\ cancelled
  /\ steps # << >>
  /\ steps[Len(steps)] = "subscribe"
  /\ iter[1].status = "none"
  /\ SseSetup(options).exit = "iterating"
  /\ iter' = [iter EXCEPT ![1] = NewIterator(iter[1])]
  /\ UNCHANGED <<connected, acknowledged, clientSent, messageQueue, processing,
                 callback, subscriptions, wire>>
  /\ UNCHANGED <<closeCode, connectionInitReceived, closedDeferred, resumed, completed>>
  /\ UNCHANGED <<steps, cancelled, waitingAt>>
  /\ SubUnchanged

\* A WebSocket connection whose handler has its runtime, its queue and its
\* fibers (the handler's wait for the runtime of the layer comes before any
\* of them exists and changes nothing held here), or an SSE stream that was
\* created and not yet pulled.
InitSub ==
  /\ StoreIdle
  /\ RouterIdle
  /\ PipelineIdle
  /\ OtherIdle
  /\ transport \in {"ws", "sse"}
  /\ connected = TRUE
  /\ acknowledged = FALSE
  /\ clientSent = 0
  /\ messageQueue = << >>
  /\ processing = << >>
  /\ subscriptions = [id \in Ids |-> "none"]
  /\ iter = [id \in Ids |-> NoIterator]
  /\ wire = << >>
  /\ options \in IF transport = "ws" THEN WsOptions ELSE SseOptions
  /\ closeCode = "none"
  /\ steps = << >>
  /\ cancelled = FALSE
  /\ connectionInitReceived = FALSE
  /\ closedDeferred = "pending"
  /\ completed = FALSE
  /\ callback = << >>
  /\ resumed = FALSE
  /\ waitingAt = "none"

NextSub ==
  \/ ClientSend
  \/ TakeMessage
  \/ WsNext
  \/ WsDone
  \/ WsThrow
  \/ Hang
  \/ WsOnConnectDone
  \/ WsAcked
  \/ WsSubscribed
  \/ WsCompleted
  \/ WsReturned
  \/ SocketClose
  \/ TransportClosed
  \/ AwaitClosed
  \/ Cleanup
  \/ SseStart
  \/ SseResume
  \/ SseSubscribeSettles
  \/ SseNext
  \/ SseDone
  \/ SseThrow
  \/ SseCancel
  \/ SseDisconnect

SpecSub == InitSub /\ [][NextSub]_vars

\* Most messages a client sends on a connection whose end is followed.
MaxCloseMsgs == 3

\* messageFiber on such a connection
ClientSendFew == clientSent < MaxCloseMsgs /\ ClientSend

InitClose == InitSub /\ transport = "ws"

NextClose ==
  \/ ClientSendFew
  \/ TakeMessage
  \/ WsNext
  \/ WsDone
  \/ WsThrow
  \/ Hang
  \/ WsOnConnectDone
  \/ WsAcked
  \/ WsSubscribed
  \/ WsCompleted
  \/ WsReturned
  \/ SocketClose
  \/ TransportClosed
  \/ AwaitClosed
  \/ Cleanup

\* A WebSocket connection with the connection handler's own fiber under the
\* scheduling of the Effect runtime: a fiber that can go on does go on.
\* Deferred.await resumes once closedDeferred is settled, and the
\* interruptions and the shutdown that follow wait for fibers that are at
\* interruptible waits (Queue.take, Effect.tryPromise, Stream.runForEach,
\* socket.closed). Nothing is assumed of the client, the transport, the
\* iterators or the callbacks of graphql-ws: each may stop for good.
SpecClose ==
  InitClose /\ [][NextClose]_vars /\ WF_vars(AwaitClosed) /\ WF_vars(Cleanup)

\* ------------------------------------------------------- claims C8, C9, C10

\* What was sent for one operation: id and which operation of that id.
WireOf(id, run) == SelectSeq(wire, LAMBDA m : m.id = id /\ m.run = run)

\* the client is there to be sent something
ClientThere == IF transport = "ws" THEN WsOpen ELSE Open

\* C8 (as stated): when the iterator of a subscription that yielded e1..en
\* finishes, the transport has received exactly next(e1), ..., next(en) in
\* that order and then one complete; and for no operation is anything
\* received after its complete, nor are its next messages out of the
\* iterator's order.
C8_ReceivedWhateverTheConnection ==
  [][\A id \in Ids :
       /\ (iter[id].status # "done" /\ iter'[id].status = "done") =>
            WireOf(id, iter[id].run)' =
              [k \in 1..iter[id].yielded |-> NextMsg(id, iter[id].run, k)]
                \o <<CompleteOut(id, iter[id].run)>>
       /\ \A run \in 1..iter'[id].run :
            \A i \in 1..Len(WireOf(id, run)') :
              /\ WireOf(id, run)'[i].type = "complete" => i = Len(WireOf(id, run)')
              /\ WireOf(id, run)'[i].type = "next" =>
                   WireOf(id, run)'[i].data = JsonStringify(i)]_vars

\* C8 (amended): when the iterator of a subscription that yielded e1..en
\* finishes while the connection to its client is open (the transport has
\* not closed, graphql-ws has not asked for it to be closed, the client of
\* the SSE response has not cancelled), the transport has received exactly
\* next(e1), ..., next(en) in that order and then one complete; and on every
\* connection, open or not, nothing of an operation is received after its
\* complete and its k-th next message carries the k-th event (what was
\* received is a prefix of that sequence).
C8_NextInOrderThenComplete ==
  [][\A id \in Ids :
       /\ (iter[id].status # "done" /\ iter'[id].status = "done" /\ ClientThere) =>
            WireOf(id, iter[id].run)' =
              [k \in 1..iter[id].yielded |-> NextMsg(id, iter[id].run, k)]
                \o <<CompleteOut(id, iter[id].run)>>
       /\ \A run \in 1..iter'[id].run :
            \A i \in 1..Len(WireOf(id, run)') :
              /\ WireOf(id, run)'[i].type = "complete" => i = Len(WireOf(id, run)')
              /\ WireOf(id, run)'[i].type = "next" =>
                   WireOf(id, run)'[i].data = JsonStringify(i)]_vars

\* A subscription that delivered two events and completed, on a connection
\* that has sent something else as well.
C8_Witness ==
  \E id \in Ids :
    /\ iter[id].status = "done"
    /\ iter[id].yielded = 2
    /\ Len(WireOf(id, iter[id].run)) = 3
    /\ Len(wire) > Len(WireOf(id, iter[id].run))

\* The fiber that dispatches messages is waiting for the callback of a
\* Subscribe whose subscription is active and whose iterator has not finished.
AwaitingActiveSubscription ==
  /\ Blocked
  /\ processing[1].type = "subscribe"
  /\ subscriptions[processing[1].id] = "active"
  /\ iter[processing[1].id].status \in {"live", "hung"}

\* C9: a Subscribe with a new id that arrives on an open connection while an
\* earlier subscription of it is active is dispatched without waiting for the earlier
\* one to complete: it is never held in the queue by the wait for the
\* earlier subscription's end.
C9_NoHeadOfLineBlocking ==
  \A i \in 1..Len(messageQueue) :
    (/\ WsOpen
     /\ acknowledged
     /\ messageQueue[i].type = "subscribe"
     /\ subscriptions[messageQueue[i].id] = "none")
      => ~AwaitingActiveSubscription

\* C10: on an open connection a client Complete{id} for an active subscription gets the iterator's
\* return() invoked without waiting for the subscription to end by itself,
\* also when the iterator never yields again: a Complete for an active
\* subscription whose iterator has hung is never held in the queue by the
\* wait for that subscription's end.
C10_CompleteCancelsActive ==
  \A i \in 1..Len(messageQueue) :
    (/\ WsOpen
     /\ messageQueue[i].type = "complete"
     /\ subscriptions[messageQueue[i].id] = "active"
     /\ iter[messageQueue[i].id].status = "hung")
      => ~AwaitingActiveSubscription

\* ------------------------------------------------- claims C11, C12, C13, C14

\* C11: on an open connection a second Subscribe carrying the id of a
\* subscription that is still active is rejected when it arrives: it is never left in the queue waiting
\* for the end of that subscription (after which the id is free and it would
\* start a second operation); and the first subscription has been sent its
\* events in order.
C11_DuplicateSubscribeRejected ==
  \A i \in 1..Len(messageQueue) :
    (/\ WsOpen
     /\ acknowledged
     /\ messageQueue[i].type = "subscribe"
     /\ subscriptions[messageQueue[i].id] = "active")
      => /\ ~AwaitingActiveSubscription
         /\ WireOf(messageQueue[i].id, iter[messageQueue[i].id].run) =
              [k \in 1..iter[messageQueue[i].id].yielded |->
                 NextMsg(messageQueue[i].id, iter[messageQueue[i].id].run, k)]

\* C12: the step that tears down an SSE stream whose iterator was obtained
\* (the client went away, or the stream ended after done or a throw) invokes
\* return() on the iterator, for the first time, and leaves it finished,
\* whether or not it had produced events; before the teardown return() has not
\* been invoked and after it it is not invoked again; and an iterator that
\* will never settle next() again does not keep the teardown from running.
\* An iterator subscribe() gives after the stream was torn down is not one
\* the stream obtained.
C12_SseTeardownReturnsOnce ==
  [][transport = "sse" =>
       /\ (connected /\ ~connected' /\ iter[1].status # "none") =>
            /\ iter[1].returns = 0
            /\ iter'[1].returns = 1
            /\ iter'[1].status \in {"returned", "done", "thrown"}
       /\ connected' => iter'[1].returns = 0
       /\ ~connected => iter'[1].returns = iter[1].returns
       /\ (connected /\ iter[1].status = "hung" /\ options.handler = "stream") =>
            ENABLED SseDisconnect]_vars

C12_Witness ==
  /\ transport = "sse"
  /\ ~connected
  /\ iter[1].yielded >= 1
  /\ iter[1].status = "returned"
  /\ iter[1].returns = 1

\* C13: once the handler of a WebSocket connection whose transport closed
\* has completed, no subscription of the connection is active and no iterator
\* of it can still produce an event.
C13_CloseCancelsEverySubscription ==
  (transport = "ws" /\ completed) =>
    \A id \in Ids : /\ subscriptions[id] = "none"
                    /\ iter[id].status \notin {"live", "hung"}

\* C14: when an iterator throws while its client is there, an error message
\* for its operation has been sent to the client and its handle is gone (the
\* id is not held by an active subscription); on both transports.
C14_ThrowSendsError ==
  [][\A id \in Ids :
       (iter[id].status # "thrown" /\ iter'[id].status = "thrown" /\ ClientThere) =>
         /\ \E i \in 1..Len(wire') : /\ wire'[i].type = "error"
                                     /\ wire'[i].id = id
                                     /\ wire'[i].run = iter[id].run
         /\ subscriptions'[id] # "active"]_vars

\* ------------------------------------------------------- claims C15, C16

\* C15: the response the HTTP handler assembled has status 400 when the
\* source failed to parse, failed validation or exceeded a complexity limit,
\* and status 200 when the operation was executed.
C15_StatusByOutcome ==
  (handler = "router" /\ Len(response) = 1 /\ response[1].kind # "failed") =>
    response[1].status =
      IF /\ ParseOk(source)
         /\ Len(ValidationErrors(source)) = 0
         /\ complexityOutcome # "exceeded"
        THEN 200
        ELSE 400

\* C16: when the complexity gate ran and a configured limit was exceeded, no
\* pre-execute hook, no execute and no post-execute hook runs, and the
\* response has status 400 and one error whose extensions are the code
\* COMPLEXITY_LIMIT_EXCEEDED, the limit that was violated, its configured
\* value and the actual value of its metric (maxComplexity 1 against { a b }
\* at cost 1 per field: limit 1, actual 2).
C16_ComplexityLimitShortCircuits ==
  (InTrace("complexity") /\ complexityOutcome = "exceeded") =>
    /\ ~InTrace("onExecuteStart") /\ ~InTrace("execute") /\ ~InTrace("onExecuteEnd")
    /\ \A i \in 1..Len(ran) : ran[i][1] \notin {"onExecuteStart", "onExecuteEnd"}
    /\ pc = "done" =>
         /\ Len(response) = 1
         /\ response[1].status = 400
         /\ response[1].data = Undefined
         /\ Len(response[1].errors) = 1
         /\ LET ext == response[1].errors[1].extensions
                cfg == complexityConfig[1]
                result == ComplexityResult(source)
            IN /\ ext.code = "COMPLEXITY_LIMIT_EXCEEDED"
               /\ ext.limitType \in {"complexity", "fields"}
               /\ ext.limitType = "complexity" =>
                    /\ ext.limit = cfg.maxComplexity
                    /\ ext.actual = result.complexity
               /\ ext.limitType = "fields" =>
                    /\ ext.limit = cfg.maxFields
                    /\ ext.actual = result.fieldCount
               /\ ext.limit # Unset
               /\ ext.actual > ext.limit
               /\ cfg.maxComplexity = 1 => (ext.limit = 1 /\ ext.actual = 2)

C16_Witness ==
  /\ pc = "done"
  /\ InTrace("complexity")
  /\ complexityOutcome = "exceeded"
  /\ complexityConfig[1].maxComplexity = 1
  /\ \E e \in 1..NumExt : {"onExecuteStart", "onExecuteEnd"} \subseteq extensions[e]
  /\ response[1].status = 400
  /\ response[1].errors[1].extensions.limit = 1
  /\ response[1].errors[1].extensions.actual = 2

\* --------------------------------------------- claims C17, C18, C19, C20

\* The request handled by a step carries a well-formed persistedQuery
\* extension of version 1 whose hash the store, as it was before the step,
\* does not resolve.
Handled == lastReq'[1].body

PersistedV1(body) ==
  /\ ~body.malformed
  /\ body.ext.tag = "pq"
  /\ body.ext.version = 1

Resolvable(hash) ==
  RouterStoreGet(storeKind, queries, cache, accessCounter, hash).ret # None

UnknownHash(body) == PersistedV1(body) /\ ~Resolvable(body.ext.sha256Hash)

\* The code the persisted-query protocol fails a request with, "" if it
\* does not fail it.
FailureCode(body) ==
  IF body.malformed \/ body.ext.tag # "pq" THEN ""
  ELSE IF body.ext.version # 1 THEN "PERSISTED_QUERY_VERSION_NOT_SUPPORTED"
  ELSE IF ~UnknownHash(body) THEN ""
  ELSE IF ~Truthy(body.query) THEN "PERSISTED_QUERY_NOT_FOUND"
  ELSE IF mode = "safelist" THEN "PERSISTED_QUERY_NOT_ALLOWED"
  ELSE IF validateHashOption /\ computeHash(body.query, hashAlgorithm) # body.ext.sha256Hash
    THEN "PERSISTED_QUERY_HASH_MISMATCH"
  ELSE ""

\* C17: a request the persisted-query protocol fails (unsupported version,
\* hash not found, not allowed, hash mismatch) is answered with an error
\* carrying the code of that failure, and nothing of the pipeline ran for it:
\* the response is no parse error, validation error or execution result and
\* carries no data, whatever query text the request held.
C17_ProtocolFailureShortCircuits ==
  [][FailureCode(Handled) # "" =>
       /\ lastResp'[1].kind = "apqError"
       /\ lastResp'[1].code = FailureCode(Handled)
       /\ lastResp'[1].query = Undefined
       /\ lastResp'[1].data = Undefined]_vars

C17_Witness ==
  /\ Len(lastResp) = 1
  /\ lastResp[1].kind = "apqError"
  /\ lastResp[1].code = "PERSISTED_QUERY_HASH_MISMATCH"
  /\ lastReq[1].body.query = "q1"
  /\ lastReq[1].body.ext.sha256Hash = "a2"

\* C18: a request whose persistedQuery extension has a version other than 1
\* is answered with PERSISTED_QUERY_VERSION_NOT_SUPPORTED carrying that
\* version, with or without a query, for a registered or an unknown hash, in
\* APQ and in safelist mode; the step leaves the store as it was, recency
\* stamps and access counter included (it was neither read nor written).
C18_UnsupportedVersionRejected ==
  [][(~Handled.malformed /\ Handled.ext.tag = "pq" /\ Handled.ext.version # 1) =>
       /\ lastResp'[1].kind = "apqError"
       /\ lastResp'[1].code = "PERSISTED_QUERY_VERSION_NOT_SUPPORTED"
       /\ lastResp'[1].version = <<Handled.ext.version>>
       /\ lastResp'[1].data = Undefined
       /\ cache' = cache
       /\ accessCounter' = accessCounter
       /\ registered' = registered]_vars

C18_Witness ==
  /\ Len(lastReq) = 1
  /\ ~lastReq[1].body.malformed
  /\ lastReq[1].body.ext.tag = "pq"
  /\ lastReq[1].body.ext.version = 2
  /\ lastReq[1].body.query = "q1"
  /\ MapHas(cache, lastReq[1].body.ext.sha256Hash)
  /\ lastResp[1].code = "PERSISTED_QUERY_VERSION_NOT_SUPPORTED"
  /\ lastResp[1].version = <<2>>

\* A request in APQ mode with a hash the store does not resolve and a query
\* text whose digest is not that hash.
MismatchRequest(body) ==
  /\ mode = "apq"
  /\ UnknownHash(body)
  /\ Truthy(body.query)
  /\ computeHash(body.query, hashAlgorithm) # body.ext.sha256Hash

MismatchRejected ==
  /\ lastResp'[1].kind = "apqError"
  /\ lastResp'[1].code = "PERSISTED_QUERY_HASH_MISMATCH"
  /\ lastResp'[1].data = Undefined
  /\ cache' = cache
  /\ accessCounter' = accessCounter

RegisteredAfter(body) ==
  RouterStoreGet(storeKind, queries, cache', accessCounter', body.ext.sha256Hash).ret
    = Some(body.query)

\* C19 (as stated): with hash validation enabled such a request fails with
\* PERSISTED_QUERY_HASH_MISMATCH and the store is unchanged; with validation
\* disabled it is answered by the pipeline run on its query text, and the
\* store then resolves the claimed hash to that text.
C19_MismatchOrRegister ==
  [][MismatchRequest(Handled) =>
       IF validateHashOption
         THEN MismatchRejected
         ELSE /\ lastResp'[1] = RouterPipeline(Handled.query)
              /\ RegisteredAfter(Handled)]_vars

\* C19 (amended): ... the store then resolves the claimed hash to that text
\* when its capacity is at least 1.
C19_MismatchOrRegisterWithRoom ==
  [][MismatchRequest(Handled) =>
       IF validateHashOption
         THEN MismatchRejected
         ELSE /\ lastResp'[1] = RouterPipeline(Handled.query)
              /\ maxSize >= 1 => RegisteredAfter(Handled)]_vars

C19_Witness ==
  /\ mode = "apq"
  /\ ~validateHashOption
  /\ Len(lastReq) = 1
  /\ ~lastReq[1].body.malformed
  /\ lastReq[1].body.query = "q1"
  /\ lastReq[1].body.ext = ExtPq(1, "a2")
  /\ lastResp[1].kind = "result"
  /\ lastResp[1].data = "data1"
  /\ "a2" \in registered
  /\ MemoryGet(cache, accessCounter, "a2").ret = Some("q1")

\* The hashes the store holds: the entries of the in-memory map, or the
\* entries the safelist was constructed with.
Stored(hash) ==
  IF storeKind = "memory" THEN MapHas(cache, hash) ELSE hash \in DOMAIN queries

ProbedHashes == RouterHashes \cup ObjectPrototypeKeys

\* C20: in safelist mode a request with a version-1 hash the store does not
\* hold and a query text is answered with PERSISTED_QUERY_NOT_ALLOWED, its
\* query is not run (no parse error, validation error or data), and every
\* hash resolves after the step exactly as it did before.
C20_SafelistRejectsUnknown ==
  [][(/\ mode = "safelist"
      /\ PersistedV1(Handled)
      /\ Truthy(Handled.query)
      /\ ~Stored(Handled.ext.sha256Hash)) =>
       /\ lastResp'[1].kind = "apqError"
       /\ lastResp'[1].code = "PERSISTED_QUERY_NOT_ALLOWED"
       /\ lastResp'[1].data = Undefined
       /\ \A h \in ProbedHashes :
            RouterStoreGet(storeKind, queries, cache', accessCounter', h).ret
              = RouterStoreGet(storeKind, queries, cache, accessCounter, h).ret]_vars

\* ------------------------------------------------------- claims C21, C22

\* The text the store holds under a hash it holds.
StoredText(c, hash) ==
  IF storeKind = "memory" THEN c[MapIndex(c, hash)].query ELSE queries[hash]

\* C21: a request with a version-1 hash the store holds is answered by the
\* pipeline run on the stored text, whether the request carries no query text,
\* the stored one or another one, and after the step the store holds the same
\* text under that hash.
C21_StoredTextWins ==
  [][(PersistedV1(Handled) /\ Stored(Handled.ext.sha256Hash)) =>
       LET hash == Handled.ext.sha256Hash
           text == StoredText(cache, hash)
       IN /\ lastResp'[1] = RouterPipeline(text)
          /\ MapHas(cache', hash) = MapHas(cache, hash)
          /\ StoredText(cache', hash) = text
          /\ registered' = registered]_vars

C21_Witness ==
  /\ Len(lastReq) = 1
  /\ PersistedV1(lastReq[1].body)
  /\ lastReq[1].body.query = "q2"
  /\ Stored(lastReq[1].body.ext.sha256Hash)
  /\ StoredText(cache, lastReq[1].body.ext.sha256Hash) = "q1"
  /\ lastResp[1].kind = "result"
  /\ lastResp[1].query = "q1"
  /\ lastResp[1].data = "data1"

\* =====================================================================
\* Safelist store (makeSafelistStore) called directly
\* =====================================================================

\* The records a safelist store is built from: any part of three hashes, each
\* with one of two texts.
SafelistRecords ==
  UNION {[D -> StoreQueries] : D \in SUBSET {"a1", "a2", "b1"}}

\* The hashes callers pass to the store.
SafelistCallHashes == StoreHashes \cup ObjectPrototypeKeys

\* has: `queries[hash] !== undefined`
SafelistHas(rec, hash) == RecordGet(rec, hash) # Undefined

SafelistUnchanged ==
  UNCHANGED <<accessCounter, maxSize, cache, mode, validateHashOption,
              hashAlgorithm, enableGet, storeKind, queries, lastReq, lastResp,
              chain, registered, pipelineVars, subVars, otherVars>>

\* store.get(hash); `recency` holds the hash of the last call
SafelistStoreGet(hash) ==
  /\ ret' = SafelistGet(queries, hash)
  /\ recency' = <<hash>>
  /\ SafelistUnchanged

\* store.set(hash, query): `set: () => Effect.void`
SafelistStoreSet(hash, query) ==
  /\ ret' = Void
  /\ recency' = <<hash>>
  /\ SafelistUnchanged

\* store.has(hash)
SafelistStoreHas(hash) ==
  /\ ret' = Bool(SafelistHas(queries, hash))
  /\ recency' = <<hash>>
  /\ SafelistUnchanged

InitSafelist ==
  /\ PipelineIdle
  /\ SubIdle
  /\ OtherIdle
  /\ accessCounter = 0
  /\ maxSize = DefaultMaxSize
  /\ cache = << >>
  /\ ret = Void
  /\ recency = << >>
  /\ mode = "safelist"
  /\ validateHashOption = TRUE
  /\ hashAlgorithm = "sha256"
  /\ enableGet = TRUE
  /\ storeKind = "safelist"
  /\ queries \in SafelistRecords
  /\ lastReq = << >>
  /\ lastResp = << >>
  /\ chain = [step |-> 0]
  /\ registered = {}

NextSafelist ==
  \/ \E h \in SafelistCallHashes : SafelistStoreGet(h)
  \/ \E h \in SafelistCallHashes, q \in StoreQueries : SafelistStoreSet(h, q)
  \/ \E h \in SafelistCallHashes : SafelistStoreHas(h)

SpecSafelist == InitSafelist /\ [][NextSafelist]_vars

\* C22: after any sequence of set, get and has calls on a safelist store, a
\* get(h) has returned a text exactly when h was pre-loaded, and then the
\* pre-loaded text, and a has(h) has returned true exactly when h was
\* pre-loaded.
C22_SafelistSeesOnlyPreloaded ==
  (storeKind = "safelist" /\ Len(recency) = 1) =>
    LET h == recency[1]
    IN /\ ret.tag \in {"Some", "None"} =>
            ret = IF h \in DOMAIN queries THEN Some(queries[h]) ELSE None
       /\ ret.tag = "Bool" => ret = Bool(h \in DOMAIN queries)

\* ------------------------------------------------- claims C23, C24, C25, C26

\* C23: when the source does not parse, no hook of any phase runs, nothing
\* but parse and the response assembly is ever done, and the response is the
\* parse error alone: no data, and no extensions since no hook wrote any.
C23_ParseFailureShortCircuits ==
  (pc # "idle" /\ ~ParseOk(source)) =>
    /\ ran = << >>
    /\ \A i \in 1..Len(trace) : trace[i] \in {"parse", "assembly"}
    /\ pc = "done" =>
         /\ Len(response) = 1
         /\ response[1].kind = "parseError"
         /\ response[1].data = Undefined
         /\ response[1].extensions = EmptyBag

C23_Witness ==
  /\ pc = "done"
  /\ ~ParseOk(source)
  /\ \A e \in 1..NumExt : extensions[e] = PhaseSet
  /\ trace = <<"parse", "assembly">>
  /\ response[1].kind = "parseError"

\* The source parses and validate() returns errors for it.
ValidationFails == pc # "idle" /\ ParseOk(source) /\ Len(ValidationErrors(source)) > 0

\* validate() has run and returned errors.
ValidationFailed == ValidationFails /\ InTrace("validate")

\* After a validation failure the complexity gate, the pre-execute hooks,
\* execute and the post-execute hooks do not run.
ValidationFailureSkipsExecution ==
  /\ \A i \in 1..Len(trace) :
       trace[i] \notin {"complexity", "onExecuteStart", "execute", "onExecuteEnd"}
  /\ \A i \in 1..Len(ran) : ran[i][1] \notin {"onExecuteStart", "onExecuteEnd"}

\* C24: when validation has returned errors, the complexity gate, the
\* pre-execute hooks, execute and the post-execute hooks do not run, and the
\* response of the request, once it has ended, carries the validation errors
\* and no data.
C24_ValidationFailureAnswered ==
  ValidationFailed =>
    /\ ValidationFailureSkipsExecution
    /\ pc = "done" => /\ response[1].kind = "validationError"
                      /\ response[1].data = Undefined

\* The rest of C24: when validation returns errors no post-validate hook
\* runs.
ValidationFailureSkipsHooks ==
  ValidationFailed => \A i \in 1..Len(ran) : ran[i][1] # "onValidate"

\* What holds after a validation failure when no hook throws: every
\* post-validate hook runs, in registration order, nothing of the later
\* phases runs, and the response is the validation errors.
ValidationFailureUnlessThrow ==
  (ValidationFailed /\ hookExit # "threw") =>
    /\ ValidationFailureSkipsExecution
    /\ pc = "done" => /\ response[1].kind = "validationError"
                      /\ response[1].data = Undefined
    /\ InTrace("assembly") =>
         SelectSeq(ran, LAMBDA r : r[1] = "onValidate") =
           [i \in 1..Len(Filtered(extensions, "onValidate")) |->
              <<"onValidate", Filtered(extensions, "onValidate")[i]>>]

\* C25: whatever path the pipeline took to its response (success, validation
\* failure, complexity-limit failure, parse failure), the response built
\* carries in its extensions what the bag holds at that time, and carries
\* none when the bag is empty.
C25_BagReachesResponse ==
  (pc = "done" /\ response[1].kind # "failed") =>
    /\ response[1].extensions = bag
    /\ BagKeys(response[1].extensions) = BagKeys(bag)

\* The kinds of body the router answers with: every one is a GraphQL result
\* object, with errors, with data, or with both.
GraphQLShaped == {"parseError", "validationError", "complexityExceeded", "result", "failed"}

\* A step of the pipeline can be taken.
PipelineCanStep == ENABLED NextPipeline

\* C26: whatever the body, the hooks' outcomes (success, failure, defect,
\* throw) and the outcome of the execute call, the router's handler never
\* stops short of a response and never ends without one: every state before
\* the end has a next step, and at the end there is exactly one response,
\* with an HTTP status and a GraphQL-shaped body; a request ended by a throw
\* is answered by the error handler with status 500.
C26_RouterAlwaysResponds ==
  (handler = "router" /\ pc # "idle") =>
    /\ pc # "done" => (Len(response) = 0 /\ PipelineCanStep)
    /\ pc = "done" =>
         /\ Len(response) = 1
         /\ response[1].status \in {200, 400, 500}
         /\ response[1].kind \in GraphQLShaped
         /\ (hookExit = "threw" \/ ExecuteThrew) =>
              (response[1].status = 500 /\ response[1].kind = "failed")

\* A request whose execute call threw after hooks ran, answered with 500.
C26_Witness ==
  /\ handler = "router"
  /\ ExecuteThrew
  /\ hookExit # "threw"
  /\ Len(ran) >= 2
  /\ response = <<FailedResponse("router")>>

\* =====================================================================
\* The extensions service: makeExtensionsService and deepMerge
\* (core/src/builder/execute.ts). A value is an atom (a scalar or an array:
\* deepMerge treats both as a whole) or an object; an object has its own
\* enumerable properties and a prototype, << >> for Object.prototype.
\* =====================================================================

\* The keys of the bag and the property names inside the values.
ServiceKeys == {"k1", "k2"}
FieldNames == {"a", "__proto__"}

\* Deepest nesting of objects in the values tried.
MaxNesting == 2

\* A scalar and an array.
Atoms == {"s1", "arr"}

AtomValue(a) == [kind |-> "atom", atom |-> a, fields |-> << >>, proto |-> << >>]
ObjectValue(f) == [kind |-> "object", atom |-> "", fields |-> f, proto |-> << >>]

\* undefined, as the value of a property that is not there
NoValue == [kind |-> "undefined", atom |-> "", fields |-> << >>, proto |-> << >>]

\* {}
EmptyObject == ObjectValue(<< >>)

\* JSON values nested at most d objects deep.
RECURSIVE JsonValues(_)
JsonValues(d) ==
  IF d = 0 THEN {AtomValue(a) : a \in Atoms}
  ELSE {AtomValue(a) : a \in Atoms}
       \cup {ObjectValue(f) : f \in UNION {[D -> JsonValues(d - 1)] : D \in SUBSET FieldNames}}

\* Object.keys(source) lists the own properties in insertion order; one
\* order is chosen for every object of a call.
KeyOrders == {<<"a", "__proto__">>, <<"__proto__", "a">>}

ObjectKeys(obj, order) == SelectSeq(order, LAMBDA k : k \in DOMAIN obj.fields)

\* typeof x === "object" && x !== null && !Array.isArray(x)
IsNonArrayObject(x) == x.kind = "object"

\* obj[key]: the own property, else for __proto__ the prototype (the getter
\* of Object.prototype), else the property inherited from the prototype
RECURSIVE GetProperty(_, _)
GetProperty(obj, key) ==
  IF key \in DOMAIN obj.fields THEN obj.fields[key]
  ELSE IF key = "__proto__"
    THEN IF obj.proto = << >> THEN EmptyObject ELSE obj.proto[1]
  ELSE IF obj.proto = << >> \/ obj.proto[1].kind = "atom" THEN NoValue
  ELSE GetProperty(obj.proto[1], key)

\* obj[key] = value: an own property is written; without one, __proto__ is
\* the setter of Object.prototype, which replaces the prototype by an object
\* or array and ignores anything else; any other key becomes an own property
SetProperty(obj, key, value) ==
  IF key \in DOMAIN obj.fields \/ key # "__proto__"
    THEN [obj EXCEPT !.fields = [k \in DOMAIN obj.fields \cup {key} |->
                                   IF k = key THEN value ELSE obj.fields[k]]]
    ELSE IF value.kind = "object" \/ value.atom = "arr"
      THEN [obj EXCEPT !.proto = <<value>>]
      ELSE obj

\* deepMerge(target, source), source being src here: `const result =
\* { ...target }`, then the loop over Object.keys(source), `keys` being what is left of it
RECURSIVE deepMergeLoop(_, _, _, _)
deepMergeLoop(result, src, keys, order) ==
  IF keys = << >> THEN result
  ELSE LET key == Head(keys)
           sourceValue == src.fields[key]
           targetValue == GetProperty(result, key)
           merged == IF IsNonArrayObject(sourceValue) /\ IsNonArrayObject(targetValue)
                       THEN deepMergeLoop(ObjectValue(targetValue.fields), sourceValue,
                                          ObjectKeys(sourceValue, order), order)
                       ELSE sourceValue
       IN deepMergeLoop(SetProperty(result, key, merged), src, Tail(keys), order)

deepMerge(target, src, order) ==
  deepMergeLoop(ObjectValue(target.fields), src, ObjectKeys(src, order), order)

\* current[key] of the Ref's record: the keys tried are ordinary names
RefGet(current, key) == IF key \in DOMAIN current THEN current[key] ELSE NoValue

\* { ...current, [key]: value }
RefWith(current, key, value) ==
  [k \in DOMAIN current \cup {key} |-> IF k = key THEN value ELSE current[k]]

\* set: Ref.update(ref, (current) => ({ ...current, [key]: value }))
ServiceSet(current, key, value) == RefWith(current, key, value)

\* merge: deepMerge into an existing non-array object, else as set
ServiceMerge(current, key, value, order) ==
  LET existing == RefGet(current, key)
  IN IF IsNonArrayObject(existing)
       THEN RefWith(current, key, deepMerge(existing, value, order))
       ELSE RefWith(current, key, value)

\* The calls tried: set with any value, merge with any object.
ServiceCalls ==
  {[op |-> "set", key |-> k, value |-> v, order |-> <<"a", "__proto__">>] :
      k \in ServiceKeys, v \in JsonValues(MaxNesting)}
  \cup {[op |-> "merge", key |-> k, value |-> v, order |-> o] :
      k \in ServiceKeys, o \in KeyOrders,
      v \in {x \in JsonValues(MaxNesting) : x.kind = "object"}}

\* An ExtensionsService whose Ref holds a scalar under k2 and anything or
\* nothing under k1.
InitService ==
  /\ StoreIdle
  /\ RouterIdle
  /\ PipelineIdle
  /\ SubIdle
  /\ ref \in {[k \in {"k2"} |-> AtomValue("s1")]}
            \cup {[k \in ServiceKeys |-> IF k = "k2" THEN AtomValue("s1") ELSE v] :
                    v \in JsonValues(MaxNesting)}
  /\ call \in {<<c>> : c \in ServiceCalls}
  /\ before = << >>
  /\ document = << >>
  /\ analyzerConfig = << >>
  /\ analyzerOut = << >>
  /\ gateInput = << >>
  /\ gateResult = << >>

ServiceUnchanged ==
  UNCHANGED <<storeVars, routerVars, pipelineVars, subVars, analyzerVars, gateVars, call>>

\* ext.set(key, value), made up to twice
Set ==
  /\ call[1].op = "set"
  /\ Len(before) < 2
  /\ ref' = ServiceSet(ref, call[1].key, call[1].value)
  /\ before' = Append(before, ref)
  /\ ServiceUnchanged

\* ext.merge(key, value), made up to twice
Merge ==
  /\ call[1].op = "merge"
  /\ Len(before) < 2
  /\ ref' = ServiceMerge(ref, call[1].key, call[1].value, call[1].order)
  /\ before' = Append(before, ref)
  /\ ServiceUnchanged

NextService == Set \/ Merge

SpecService == InitService /\ [][NextService]_vars

\* ------------------------------------------------------------ claim C27

\* What get() shows of a value: its own properties, recursively.
RECURSIVE Own(_)
Own(x) ==
  IF x.kind = "atom" THEN x
  ELSE ObjectValue([k \in DOMAIN x.fields |-> Own(x.fields[k])])

\* v deep-merged into the object t as the claim words it: nested non-array
\* objects merged recursively, v winning on every other conflict.
RECURSIVE MergedInto(_, _)
MergedInto(t, v) ==
  ObjectValue([k \in DOMAIN t.fields \cup DOMAIN v.fields |->
     IF k \notin DOMAIN v.fields THEN t.fields[k]
     ELSE IF k \in DOMAIN t.fields /\ t.fields[k].kind = "object"
             /\ v.fields[k].kind = "object"
       THEN MergedInto(t.fields[k], v.fields[k])
     ELSE v.fields[k]])

\* The Ref after the first call made.
AfterFirst == IF Len(before) = 1 THEN ref ELSE before[2]

\* The first call left every key but its own as it was.
OtherKeysUnchanged ==
  /\ DOMAIN AfterFirst = DOMAIN before[1] \cup {call[1].key}
  /\ \A k \in DOMAIN before[1] \ {call[1].key} : AfterFirst[k] = before[1][k]

\* The first call was a merge and did what the claim says of merge.
MergedAsStated ==
  LET k == call[1].key
      existing == RefGet(before[1], k)
  IN Own(AfterFirst[k]) =
       IF IsNonArrayObject(existing)
         THEN MergedInto(Own(existing), Own(call[1].value))
         ELSE Own(call[1].value)

\* The second merge of the same value changed nothing get() shows.
MergeIdempotent ==
  \A k \in DOMAIN ref : Own(ref[k]) = Own(before[2][k])

\* C27: set(k, v) replaces the value of k and leaves every other key
\* unchanged; merge(k, v) deep-merges v into an existing non-array object
\* (nested objects recursively, v winning on every other conflict, arrays
\* replaced) and behaves as set(k, v) when k is absent or holds a
\* non-object; merging the same v twice gives the bag of merging it once.
C27_SetAndMerge ==
  Len(before) >= 1 =>
    /\ OtherKeysUnchanged
    /\ call[1].op = "set" => AfterFirst[call[1].key] = call[1].value
    /\ call[1].op = "merge" => MergedAsStated
    /\ (call[1].op = "merge" /\ Len(before) = 2) => MergeIdempotent

\* The property name __proto__ occurs somewhere in the value.
RECURSIVE NamesProto(_)
NamesProto(x) ==
  /\ x.kind = "object"
  /\ \/ "__proto__" \in DOMAIN x.fields
     \/ \E k \in DOMAIN x.fields : NamesProto(x.fields[k])

\* What C27 says when no object merged has a property named __proto__.
C27_SetAndMergeOrdinaryNames ==
  (Len(before) >= 1 /\ ~NamesProto(call[1].value)) =>
    /\ OtherKeysUnchanged
    /\ call[1].op = "set" => AfterFirst[call[1].key] = call[1].value
    /\ call[1].op = "merge" => MergedAsStated
    /\ (call[1].op = "merge" /\ Len(before) = 2) => MergeIdempotent

\* =====================================================================
\* The analyzer extension (createAnalyzerExtension, core/src/builder/
\* execute.ts) and the complexity calculator it calls, which server/
\* complexity.ts defines: the calculator is written from section 4.2 of the
\* specification.
\* =====================================================================

\* The fragments a document defines.
FragmentNames == {"A", "B"}

\* Selections: a field (with an alias or "", and its selection set), a
\* fragment spread, an inline fragment.
Field(name, alias, sels) == [kind |-> "field", name |-> name, alias |-> alias, sels |-> sels]
FragmentSpread(name) == [kind |-> "spread", name |-> name, alias |-> "", sels |-> << >>]
InlineFragment(sels) == [kind |-> "inline", name |-> "", alias |-> "", sels |-> sels]

\* Longest selection set tried.
MaxSelections == 2

\* The selection sets of 1 to MaxSelections of the given selections.
SelectionSets(items) == UNION {[1..n -> items] : n \in 1..MaxSelections}

\* Selections without a selection set: a field, an introspection field, the
\* two spreads.
LeafSelections ==
  {Field("a", "", << >>), Field("__typename", "", << >>)}
  \cup {FragmentSpread(f) : f \in FragmentNames}

\* What an operation selects: leaves, an aliased field, a field with a
\* selection set of leaves, an inline fragment around one leaf.
OperationSelections ==
  LeafSelections
  \cup {Field("a", "x", << >>)}
  \cup {Field("u", "", ss) : ss \in SelectionSets(LeafSelections)}
  \cup {InlineFragment(<<l>>) : l \in LeafSelections}

\* The bodies tried for fragment A: leaves, or one field around one leaf.
FragmentBodiesA ==
  SelectionSets(LeafSelections)
  \cup {<<Field("u", "", <<l>>)>> : l \in LeafSelections}

\* The bodies tried for fragment B.
FragmentBodiesB ==
  {<<Field("a", "", << >>)>>, <<FragmentSpread("A")>>, <<FragmentSpread("B")>>,
   <<Field("a", "", << >>), FragmentSpread("A")>>}

Documents ==
  {[operation |-> op, fragments |-> [f \in FragmentNames |-> IF f = "A" THEN a ELSE b]] :
     op \in SelectionSets(OperationSelections), a \in FragmentBodiesA, b \in FragmentBodiesB}

\* name prefixed `__`
IsIntrospection(name) == name = "__typename"

\* cost of a field that the cost table does not list
DefaultFieldComplexity == 1

Max(m, n) == IF m >= n THEN m ELSE n

NoMetrics == [complexity |-> 0, depth |-> 0, fieldCount |-> 0, aliasCount |-> 0]

\* the metrics of two parts of one selection set
Combine(r1, r2) ==
  [complexity |-> r1.complexity + r2.complexity,
   depth |-> Max(r1.depth, r2.depth),
   fieldCount |-> r1.fieldCount + r2.fieldCount,
   aliasCount |-> r1.aliasCount + r2.aliasCount]

\* The walk of section 4.2 over a selection set at the given depth, `path`
\* being the fragments on the current recursion path.
RECURSIVE WalkSelections(_, _, _, _)
WalkSelections(doc, sels, depth, path) ==
  IF sels = << >> THEN NoMetrics
  ELSE LET sel == Head(sels)
           this ==
             IF sel.kind = "field"
               THEN IF IsIntrospection(sel.name) THEN NoMetrics
                    ELSE Combine([complexity |-> DefaultFieldComplexity,
                                  depth |-> depth,
                                  fieldCount |-> 1,
                                  aliasCount |-> IF sel.alias # "" /\ sel.alias # sel.name
                                                   THEN 1 ELSE 0],
                                 WalkSelections(doc, sel.sels, depth + 1, path))
             ELSE IF sel.kind = "spread"
               THEN IF sel.name \in path THEN NoMetrics
                    ELSE WalkSelections(doc, doc.fragments[sel.name], depth,
                                        path \cup {sel.name})
             ELSE WalkSelections(doc, sel.sels, depth, path)
       IN Combine(this, WalkSelections(doc, Tail(sels), depth, path))

\* calculator({document, operation, ...}): the Complexity Result
defaultComplexityCalculator(doc) == WalkSelections(doc, doc.operation, 1, {})

\* The configurations tried: the defaults (complexity and depth), every
\* metric included, and every metric included with a cost table the
\* calculator fails on.
AnalyzerConfigs ==
  {[includeComplexity |-> TRUE, includeDepth |-> TRUE,
    includeFieldCount |-> all, includeAliasCount |-> all,
    fieldComplexities |-> table] :
      all \in BOOLEAN, table \in {"wellFormed", "malformed"}}
  \ {[includeComplexity |-> TRUE, includeDepth |-> TRUE,
      includeFieldCount |-> FALSE, includeAliasCount |-> FALSE,
      fieldComplexities |-> "malformed"]}

\* the calculator fails: an analysis failure
CalculationFails(config, doc) == config.fieldComplexities = "malformed"

Included(flag, value) == IF flag THEN <<value>> ELSE << >>

\* an output that reports the field count as the depth
AnalyzerOutputDepthFromCount(config, result) ==
  [complexity |-> Included(config.includeComplexity, result.complexity),
   depth |-> Included(config.includeDepth, result.fieldCount),
   fieldCount |-> Included(config.includeFieldCount, result.fieldCount),
   aliasCount |-> Included(config.includeAliasCount, result.aliasCount)]

\* `const output: AnalyzerOutput = {}` and the four `if (include...)`
AnalyzerOutput(config, result) ==
  [complexity |-> Included(config.includeComplexity, result.complexity),
   depth |-> Included(config.includeDepth, result.depth),
   fieldCount |-> Included(config.includeFieldCount, result.fieldCount),
   aliasCount |-> Included(config.includeAliasCount, result.aliasCount)]

\* An analyzer extension and the document of a request about to execute.
InitAnalyzer ==
  /\ StoreIdle
  /\ RouterIdle
  /\ PipelineIdle
  /\ SubIdle
  /\ ref = << >>
  /\ call = << >>
  /\ before = << >>
  /\ document \in {<<d>> : d \in Documents}
  /\ analyzerConfig \in {<<c>> : c \in AnalyzerConfigs}
  /\ analyzerOut = << >>
  /\ gateInput = << >>
  /\ gateResult = << >>

\* the fragments spread anywhere in a selection set
RECURSIVE SpreadNames(_)
SpreadNames(sels) ==
  IF sels = << >> THEN {}
  ELSE (IF Head(sels).kind = "spread" THEN {Head(sels).name}
        ELSE SpreadNames(Head(sels).sels))
       \cup SpreadNames(Tail(sels))

\* a fragment of the document spreads itself, directly or through the other
Cyclic(doc) ==
  \/ \E f \in FragmentNames : f \in SpreadNames(doc.fragments[f])
  \/ /\ "B" \in SpreadNames(doc.fragments["A"])
     /\ "A" \in SpreadNames(doc.fragments["B"])

\* an onExecuteStart that sets nothing for a document with a fragment cycle
AnalyzedUnlessCyclic(config, doc) ==
  IF CalculationFails(config, doc) \/ Cyclic(doc)
    THEN [set |-> << >>]
    ELSE [set |-> <<AnalyzerOutput(config, defaultComplexityCalculator(doc))>>]

\* what onExecuteStart does: nothing when the calculation failed, else the
\* output it sets under the key
Analyzed(config, doc) ==
  IF CalculationFails(config, doc)
    THEN [set |-> << >>]
    ELSE [set |-> <<AnalyzerOutput(config, defaultComplexityCalculator(doc))>>]

\* onExecuteStart: the calculator's result, or null when the calculation
\* failed (logged); without a result nothing is set, with one the output is
\* built and set under the key.
OnExecuteStart ==
  /\ analyzerOut = << >>
  /\ analyzerOut' = <<Analyzed(analyzerConfig[1], document[1])>>
  /\ UNCHANGED <<storeVars, routerVars, pipelineVars, subVars, serviceVars, gateVars,
                 document, analyzerConfig>>

NextAnalyzer == OnExecuteStart

SpecAnalyzer == InitAnalyzer /\ [][NextAnalyzer]_vars

\* ------------------------------------------------------ claims C28, C29

\* The selection set with every fragment spread and inline fragment replaced
\* by what it selects: fields only. Defined for documents without cycles.
RECURSIVE Expanded(_, _)
Expanded(doc, sels) ==
  IF sels = << >> THEN << >>
  ELSE LET sel == Head(sels)
           this == IF sel.kind = "field"
                     THEN <<Field(sel.name, sel.alias, Expanded(doc, sel.sels))>>
                   ELSE IF sel.kind = "spread"
                     THEN Expanded(doc, doc.fragments[sel.name])
                   ELSE Expanded(doc, sel.sels)
       IN this \o Expanded(doc, Tail(sels))

\* The same with a spread of a fragment that is being expanded left out.
RECURSIVE ExpandedOnce(_, _, _)
ExpandedOnce(doc, sels, path) ==
  IF sels = << >> THEN << >>
  ELSE LET sel == Head(sels)
           this == IF sel.kind = "field"
                     THEN <<Field(sel.name, sel.alias, ExpandedOnce(doc, sel.sels, path))>>
                   ELSE IF sel.kind = "spread"
                     THEN IF sel.name \in path THEN << >>
                          ELSE ExpandedOnce(doc, doc.fragments[sel.name],
                                            path \cup {sel.name})
                   ELSE ExpandedOnce(doc, sel.sels, path)
       IN this \o ExpandedOnce(doc, Tail(sels), path)

\* The number of non-introspection field selections in a tree of fields.
RECURSIVE FieldSelections(_)
FieldSelections(tree) ==
  IF tree = << >> THEN 0
  ELSE (IF IsIntrospection(Head(tree).name) THEN 0
        ELSE 1 + FieldSelections(Head(tree).sels))
       + FieldSelections(Tail(tree))

\* The longest chain of selection sets nested in one another, whatever the
\* fields that hold them.
RECURSIVE SelectionSetNesting(_)
SelectionSetNesting(tree) ==
  IF tree = << >> THEN 0
  ELSE Max(1 + SelectionSetNesting(Head(tree).sels),
           SelectionSetNesting(Tail(tree)))

\* The longest chain of non-introspection fields nested in one another's
\* selection sets: a selection set of introspection fields only adds no level.
RECURSIVE NestingChain(_)
NestingChain(tree) ==
  IF tree = << >> THEN 0
  ELSE Max(IF IsIntrospection(Head(tree).name) THEN 0
           ELSE 1 + NestingChain(Head(tree).sels),
           NestingChain(Tail(tree)))

\* onExecuteStart has run and set an output.
OutputSet == Len(analyzerOut) = 1 /\ Len(analyzerOut[1].set) = 1

C29_CycleSkipped ==
  (Len(analyzerOut) = 1 /\ Cyclic(document[1])
     /\ analyzerConfig[1].fieldComplexities = "wellFormed") =>
    /\ Len(analyzerOut[1].set) = 1
    /\ LET doc == document[1]
           tree == ExpandedOnce(doc, doc.operation, {})
           out == analyzerOut[1].set[1]
       IN /\ out.depth = <<NestingChain(tree)>>
          /\ out.complexity = <<FieldSelections(tree) * DefaultFieldComplexity>>
          /\ analyzerConfig[1].includeFieldCount =>
               out.fieldCount = <<FieldSelections(tree)>>

\* Fragments A and B spreading each other, both spread by the operation: each
\* is walked once from either entry.
C29_Witness ==
  /\ OutputSet
  /\ analyzerConfig[1].includeFieldCount
  /\ document[1].operation = <<FragmentSpread("A"), FragmentSpread("B")>>
  /\ document[1].fragments["A"] = <<Field("a", "", << >>), FragmentSpread("B")>>
  /\ document[1].fragments["B"] = <<Field("a", "", << >>), FragmentSpread("A")>>
  /\ analyzerOut[1].set[1].fieldCount = <<4>>

\* =====================================================================
\* The complexity gate at its two sites: graphqlHandler (router.ts 365-383
\* with the catchAll of 438-457) and makeSSESubscriptionStream
\* (schema-builder-extensions.ts 695-729).
\* =====================================================================

\* The queries that reach the gate: they parse and validate.
GateTexts ==
  {q \in PipelineTexts \cup {"q2"} : ParseOk(q) /\ ValidationErrors(q) = << >>}

\* The requests and configurations tried.
GateInputs ==
  {[site |-> st, query |-> q, complexity |-> cfg, analysis |-> an] :
     st \in {"router", "sse"}, q \in GateTexts,
     cfg \in {<< >>} \cup {<<c>> : c \in ComplexityConfigs},
     an \in {"ok", "fails"}}

\* How the effect of validateComplexity ends: with success, or failed with a
\* ComplexityLimitExceededError or a ComplexityAnalysisError.
ValidateComplexityExit(in) ==
  IF in.analysis = "fails" THEN [tag |-> "ComplexityAnalysisError", error |-> << >>]
  ELSE IF Len(validateComplexity(in.query, in.complexity[1])) = 1
    THEN [tag |-> "ComplexityLimitExceededError",
          error |-> validateComplexity(in.query, in.complexity[1])]
  ELSE [tag |-> "Success", error |-> << >>]

\* The gate let the request through: the pipeline goes on to execute, the
\* stream to its subscription.
Proceeds(warned) == [proceeds |-> TRUE, warned |-> warned, answer |-> << >>]

\* The gate ended the request with the given answer.
Refused(answer) == [proceeds |-> FALSE, warned |-> FALSE, answer |-> <<answer>>]

\* a router gate for which a failed analysis fails the request
RouterGateFailClosed(in) ==
  IF in.complexity = << >> THEN Proceeds(FALSE)
  ELSE LET exit == ValidateComplexityExit(in)
       IN IF exit.tag = "ComplexityLimitExceededError"
            THEN Refused(ComplexityExceededResponse(exit.error[1]))
          ELSE IF exit.tag = "ComplexityAnalysisError"
            THEN Refused(FailedResponse("router"))
          ELSE Proceeds(FALSE)

\* `if (resolvedConfig.complexity)`: validateComplexity with its catchTags;
\* the limit error fails the generator and is answered by the catchAll, the
\* analysis error is logged as a warning
RouterGateResult(in) ==
  IF in.complexity = << >> THEN Proceeds(FALSE)
  ELSE LET exit == ValidateComplexityExit(in)
       IN IF exit.tag = "ComplexityLimitExceededError"
            THEN Refused(ComplexityExceededResponse(exit.error[1]))
          ELSE IF exit.tag = "ComplexityAnalysisError"
            THEN Proceeds(TRUE)
          ELSE Proceeds(FALSE)

\* Stream.make(formatErrorEvent([error]), formatCompleteEvent())
ErrorStream(error) ==
  <<[event |-> "error",
     extensions |-> [code |-> "COMPLEXITY_LIMIT_EXCEEDED", limitType |-> error.limitType,
                     limit |-> error.limit, actual |-> error.actual]],
    [event |-> "complete", extensions |-> << >>]>>

\* `if (complexityConfig)`: complexityResult is null, or the GraphQLError of
\* a limit exceeded; `if (complexityResult) return Stream.make(...)`
SseGateResult(in) ==
  IF in.complexity = << >> THEN Proceeds(FALSE)
  ELSE LET exit == ValidateComplexityExit(in)
       IN IF exit.tag = "ComplexityLimitExceededError"
            THEN Refused(ErrorStream(exit.error[1]))
          ELSE IF exit.tag = "ComplexityAnalysisError"
            THEN Proceeds(TRUE)
          ELSE Proceeds(FALSE)

InitGate ==
  /\ StoreIdle
  /\ RouterIdle
  /\ PipelineIdle
  /\ SubIdle
  /\ ref = << >>
  /\ call = << >>
  /\ before = << >>
  /\ document = << >>
  /\ analyzerConfig = << >>
  /\ analyzerOut = << >>
  /\ gateInput \in {<<in>> : in \in GateInputs}
  /\ gateResult = << >>

GateUnchanged ==
  UNCHANGED <<storeVars, routerVars, pipelineVars, subVars, serviceVars, analyzerVars,
              gateInput>>

\* The gate of graphqlHandler.
RouterGate ==
  /\ gateInput[1].site = "router"
  /\ gateResult = << >>
  /\ gateResult' = <<RouterGateResult(gateInput[1])>>
  /\ GateUnchanged

\* The gate of makeSSESubscriptionStream.
SseGate ==
  /\ gateInput[1].site = "sse"
  /\ gateResult = << >>
  /\ gateResult' = <<SseGateResult(gateInput[1])>>
  /\ GateUnchanged

NextGate == RouterGate \/ SseGate

SpecGate == InitGate /\ [][NextGate]_vars

\* ------------------------------------------------------------ claim C30

\* What either gate does when no complexity limits are configured.
WithoutGate(in) ==
  IF in.site = "router" THEN RouterGateResult([in EXCEPT !.complexity = << >>])
  ELSE SseGateResult([in EXCEPT !.complexity = << >>])

\* C30: when the complexity analysis itself fails, the request is not
\* blocked: the one-shot pipeline goes on to execute and the SSE subscription
\* is started, with no error answered, exactly as when no gate is
\* configured; the failure is only logged.
C30_AnalysisFailureFailsOpen ==
  (Len(gateResult) = 1 /\ gateInput[1].complexity # << >>
     /\ gateInput[1].analysis = "fails") =>
    /\ gateResult[1].proceeds
    /\ gateResult[1].answer = << >>
    /\ gateResult[1].warned
    /\ [gateResult[1] EXCEPT !.warned = FALSE] = WithoutGate(gateInput[1])

\* An SSE subscription let through a gate whose limits the query would have
\* exceeded, the analysis having failed.
C30_Witness ==
  /\ Len(gateResult) = 1
  /\ gateInput[1].site = "sse"
  /\ gateInput[1].analysis = "fails"
  /\ gateInput[1].complexity # << >>
  /\ Len(validateComplexity(gateInput[1].query, gateInput[1].complexity[1])) = 1
  /\ gateResult[1].proceeds


\* ------------------------------------------------- claims C31, C32 (WebSocket)

\* a Subscribe was executed: subscribe() gave an iterator for some id
SubscribeExecuted == \E id \in Ids : iter[id].run > 0

\* C31: on a WebSocket connection whose handler was given complexity limits
\* that the subscribed operations exceed, no Subscribe is executed: no
\* iterator is ever obtained and no next message is sent.
C31_WsComplexityLimitEnforced ==
  (transport = "ws" /\ options.complexity = "exceeded") =>
    /\ ~SubscribeExecuted
    /\ \A i \in 1..Len(wire) : wire[i].type # "next"

\* C32: on a WebSocket connection whose onConnect hook returns false or
\* fails, the connection is never acknowledged (no connection_ack is sent,
\* ctx.acknowledged stays false), no Subscribe is executed and no id is ever
\* taken by a subscription.
C32_RefusedConnectionNeverReady ==
  (transport = "ws" /\ options.onConnect \in {"returnsFalse", "fails"}) =>
    /\ ~acknowledged
    /\ \A i \in 1..Len(wire) : wire[i] # ConnectionAck
    /\ ~SubscribeExecuted
    /\ \A id \in Ids : subscriptions[id] = "none"

\* A connection whose hook failed: graphql-ws asked for the socket to be
\* closed as Forbidden when the ConnectionInit was handled, and the
\* processing fiber has since dispatched every further message of the client.
C32_Witness ==
  /\ transport = "ws"
  /\ options.onConnect = "fails"
  /\ closeCode = "4403"
  /\ clientSent >= 3
  /\ messageQueue = << >>
  /\ ~completed
  /\ ~acknowledged


\* ---------------------------------------------- claims C33, C35..C38 (SSE)

Invoked(step) == \E i \in 1..Len(steps) : steps[i] = step

CompleteEvents == {i \in 1..Len(wire) : wire[i].type = "complete"}

\* The stream is over and was not cut short by its client: it ended after
\* the events of the setup, after done or a throw of the iterator, or failed.
StreamOver ==
  /\ transport = "sse"
  /\ steps # << >>
  /\ ~connected
  /\ ~cancelled

\* C33: an SSE stream that is over carries exactly one complete event, and
\* that event is the last one emitted, whatever path ended it.
C33_SseEndsWithOneComplete ==
  StreamOver =>
    /\ Cardinality(CompleteEvents) = 1
    /\ Last(wire).type = "complete"

\* no hook of the setup dies with a defect
NoDefect == options.onConnect # "dies" /\ options.onSubscribe # "dies"

\* C33 except for defects: what holds on every path whose hooks succeed or
\* fail but do not die.
C33_SseEndsWithOneCompleteUnlessDefect ==
  (StreamOver /\ NoDefect) =>
    /\ Cardinality(CompleteEvents) = 1
    /\ Last(wire).type = "complete"

\* C35: once the client of an active SSE subscription has disconnected and
\* the subscription is stopped, the configured onDisconnect hook has been
\* invoked.
C35_SseOnDisconnectInvoked ==
  (/\ transport = "sse"
   /\ options.onDisconnect = "set"
   /\ cancelled
   /\ ~connected
   /\ iter[1].status = "returned") => Invoked("onDisconnect")

\* the handler has nothing left to do
SubQuiescent == ~ENABLED NextSub

\* C36: when the client has cancelled the response stream of the web or Bun
\* handler while the subscription was active, the handler does not come to
\* rest before return() was invoked on the iterator.
C36_SseCancelReturnsIterator ==
  (/\ transport = "sse"
   /\ options.handler = "web"
   /\ cancelled
   /\ iter[1].status # "none"
   /\ SubQuiescent) => iter[1].returns >= 1

\* C36, second half: after the cancel the handler takes no further event
\* from the iterator.
C36_SseCancelStopsConsuming ==
  [][(transport = "sse" /\ cancelled) => iter'[1].yielded = iter[1].yielded]_vars

\* C37: when the onConnect hook of an SSE request fails (the effect it gave
\* fails, or the hook throws), nothing but the hook is invoked, and the
\* stream, once over, is exactly the error event with code
\* CONNECTION_REJECTED followed by complete.
C37_SseConnectRejected ==
  (transport = "sse" /\ options.onConnect \in {"fails", "throws"}) =>
    /\ steps \in {<< >>, <<"onConnect">>}
    /\ StreamOver => wire = ErrorThenComplete("CONNECTION_REJECTED")

\* C37 without the code: one error event, then complete, and neither parse,
\* validate nor subscribe invoked.
C37_SseConnectFailureEndsStream ==
  (transport = "sse" /\ options.onConnect \in {"fails", "throws"}) =>
    /\ steps \in {<< >>, <<"onConnect">>}
    /\ StreamOver => /\ Len(wire) = 2
                     /\ wire[1].type = "error"
                     /\ wire[2].type = "complete"

\* what the setup invokes, in order, when every check passes
SetupOrder(opts) ==
  (IF opts.onConnect = "unset" THEN << >> ELSE <<"onConnect">>)
    \o <<"parse", "validate">>
    \o (IF opts.complexity = "unset" THEN << >> ELSE <<"validateComplexity">>)
    \o (IF opts.onSubscribe = "unset" THEN << >> ELSE <<"onSubscribe">>)
    \o <<"subscribe">>

\* one of the first five checks fails
CheckFails(opts) ==
  \/ opts.onConnect \notin {"unset", "succeeds"}
  \/ opts.query # "subscription"
  \/ opts.complexity = "exceeded"

\* C38: subscribe is invoked only when onConnect succeeded (if configured),
\* the query parsed and validated, the operation is a subscription and the
\* gate passed or failed open, after all of these and onSubscribe, in this
\* order; and when one of the five checks fails no next event is ever
\* emitted and the stream, once over, is exactly one error event followed
\* by complete.
C38_SseSubscribeOnlyAfterChecks ==
  transport = "sse" =>
    /\ Invoked("subscribe") =>
         /\ ~CheckFails(options)
         /\ steps = SetupOrder(options)
    /\ CheckFails(options) =>
         /\ \A i \in 1..Len(wire) : wire[i].type # "next"
         /\ StreamOver => /\ Len(wire) = 2
                          /\ wire[1].type = "error"
                          /\ wire[2].type = "complete"

\* C38 except for an onConnect hook that dies with a defect.
C38_SseSubscribeOnlyAfterChecksUnlessDefect ==
  (transport = "sse" /\ options.onConnect # "dies") =>
    /\ Invoked("subscribe") =>
         /\ ~CheckFails(options)
         /\ steps = SetupOrder(options)
    /\ CheckFails(options) =>
         /\ \A i \in 1..Len(wire) : wire[i].type # "next"
         /\ StreamOver => /\ Len(wire) = 2
                          /\ wire[1].type = "error"
                          /\ wire[2].type = "complete"


\* ------------------------------------------------------------- claim C34

\* C34: the response of the router to an unexpected failure (a defect, or an
\* error that is not a complexity-limit error) is the answer it gives to
\* every other such failure: status 500 and the fixed body, whatever the
\* cause holds, and nothing of the cause is in it.
C34_GenericErrorForEveryFailure ==
  (handler = "router" /\ Len(cause) = 1) =>
    /\ Len(response) = 1
    /\ \A other \in Causes : response[1] = defaultErrorHandler(other)
    /\ response[1].status = 500
    /\ response[1].data = Undefined
    /\ response[1].extensions = EmptyBag

\* graphqlExecute threw after hooks had written to the bag: the router
\* answered the failure.
C34_Witness ==
  /\ handler = "router"
  /\ pc = "done"
  /\ Len(cause) = 1
  /\ cause[1] = Fail("connect ECONNREFUSED 10.0.0.5")
  /\ bag # EmptyBag
  /\ Len(response) = 1
  /\ response[1].kind = "failed"


\* ------------------------------------------------------------- claim C39

\* the entries of the store, and which of two was accessed before the other
StoreEntries(c) == {<<c[i].key, c[i].query>> : i \in 1..Len(c)}
AccessedBefore(c) ==
  {<<c[p[1]].key, c[p[2]].key>> :
     p \in {q \in (1..Len(c)) \X (1..Len(c)) : c[q[1]].accessOrder < c[q[2]].accessOrder}}

\* what evictLRU would delete next
NextEvicted(c) == OldestKey(c)

StoreFrame ==
  /\ StoreEntries(cache') = StoreEntries(cache)
  /\ AccessedBefore(cache') = AccessedBefore(cache)
  /\ NextEvicted(cache') = NextEvicted(cache)

HasStep == \E h \in StoreHashes : StoreHas(h)
MissingGetStep == \E h \in StoreHashes : StoreGet(h) /\ ret' = None
HitGetStep == \E h \in StoreHashes : StoreGet(h) /\ ret' # None
SetStep == \E h \in StoreHashes, q \in StoreQueries : StoreSet(h, q)

\* C39: a has(h) and a get(h) that misses leave the entries of the in-memory
\* store, the order in which they were last accessed and the entry to evict
\* next as they were; a step that changes any of these is a set or a get
\* that hits.
C39_HasAndMissLeaveRecency ==
  [][/\ (HasStep \/ MissingGetStep) => StoreFrame
     /\ ~StoreFrame => (SetStep \/ HitGetStep)]_vars

\* A get has just missed on a store holding two entries stamped at different
\* times.
C39_Witness ==
  /\ ret = None
  /\ Len(cache) = 2
  /\ maxSize = 2
  /\ cache[1].accessOrder > cache[2].accessOrder


\* ------------------------------------------------------------- claim C40

\* C40: once the closed signal of the transport has resolved or failed, or
\* the message stream has failed, the handler of a WebSocket connection
\* completes, whatever its fibers, the iterators and the callbacks of
\* graphql-ws are waiting for and whatever the client and the transport do
\* meanwhile; it completes for no other reason; the step that completes it
\* leaves no message in the queue and none awaited by the processing fiber;
\* and once the handler has completed no message is queued, taken or awaited
\* by a fiber of the handler.
C40_HandlerTerminatesOnClose ==
  /\ (transport = "ws" /\ closedDeferred # "pending") ~> completed
  /\ [][transport = "ws" =>
          /\ completed' =>
               /\ closedDeferred \in CloseSignals
               /\ messageQueue' = << >>
               /\ processing' = << >>
          /\ completed =>
               /\ ~ENABLED TakeMessage
               /\ ~ENABLED ClientSend
               /\ UNCHANGED <<messageQueue, processing, closedDeferred, resumed,
                              completed>>]_vars

\* The message stream failed while a message of the client was still queued
\* behind the callback of a Subscribe whose iterator had delivered an event
\* and hung: the iterator was returned, the handler ended, the queue is empty.
C40_Witness ==
  /\ transport = "ws"
  /\ closedDeferred = "messages failed"
  /\ completed
  /\ clientSent = MaxCloseMsgs
  /\ messageQueue = << >>
  /\ processing = << >>
  /\ \A id \in Ids : subscriptions[id] = "none"
  /\ \E id \in Ids : /\ iter[id].status = "returned"
                     /\ iter[id].yielded >= 1

====
